---- MODULE Spec2Model ----
(***************************************************************************)
(* Model of the 2pc-engine coordination plane: the membership table with   *)
(* its deterministic election (pkg/cluster), the participant store         *)
(* (pkg/node), the RPC surface (pkg/transport) and the two-phase-commit    *)
(* coordinator (pkg/two_phase_commit).                                     *)
(***************************************************************************)
EXTENDS Integers, FiniteSets, Sequences, TLC

(* ---------------------------- bounds ----------------------------------- *)
\* addresses are 1..NumAddrs; the integer order stands for the
\* lexicographic order of the address strings (sort.Strings)
NumAddrs == 3

\* Execute calls made on the coordinator (one per caller); the callers are
\* numbered in the order in which they enter Execute
MaxCalls == 2
\* injected failures per run: RPC timeouts and database errors
MaxFaults == 1
\* changes of the set of answering servers during a heartbeat run
MaxFlips == 2
\* the largest retry count a client is configured with
MaxRetries == 3
\* followers alive at the start of a run that is checked for termination
MaxLiveFollowers == 1

Addrs == 1..NumAddrs
\* node.Node objects. At most two records of one address are referenced at a
\* time (the one stored in the table and one the leader pointer still holds),
\* so the records made for address a are named a and a + NumAddrs
Objs == 1..(2 * NumAddrs)
Callers == 1..MaxCalls
\* transaction ids: uuid.New() yields a fresh id per Execute
TxIds == 1..MaxCalls
\* the address of the coordinator's own node
LocalAddr == 1
NoTx == 0
NoCaller == 0
\* "" as an address, nil as a *node.Node
NoAddr == 0
Nil == 0

RoleMaster == "MASTER"
RoleSlave == "SLAVE"
Roles == {RoleMaster, RoleSlave}

VARIABLES
    oaddr,     \* Node.Addr of each object
    orole,     \* Node.Role of each object
    oalive,    \* Node.IsAlive of each object
    nodes,     \* Cluster.nodes: address -> object (Nil when absent)
    master,    \* Cluster.master: object or Nil
    lastOp,    \* history: the membership operation that ran last
    lastRet,   \* history: what the election returned, when it ran last
    hist       \* history: progress of the all-dead / revive / elect scenario

VARIABLES
    hasLocal,       \* Coordinator.localNode # nil
    withDb,         \* the participant stores have a database (Node.db # nil)
    st,             \* the participant store (node.Node) living at each address
    mu,             \* Coordinator.mu: the caller holding it, or NoCaller
    nextTx,         \* the next fresh transaction id
    pc,             \* where each caller is inside Execute
    txOf,           \* txID of each caller's Execute
    snap,           \* remoteParticipants: addresses of the snapshot
    localPrepared,  \* outcome.localPrepared
    localCommitOk,  \* localCommitSuccess
    prep,           \* preparePhase: per remote the goroutine state / result
    fin,            \* commitPhase / abortPhase: per remote state / result
    decision,       \* the terminal decision of the Execute
    resp,           \* the TransactionResponse returned by Execute
    reqs,           \* requests in flight to the participants' servers
    replies,        \* responses in flight back to the coordinator
    issued,         \* history: how often each call was issued per tx and address
    nfaults         \* history: failures injected so far

VARIABLES
    up,          \* the addresses whose server answers /health with 200
    hbpc,        \* HeartbeatManager.run: where the loop stands
    probes,      \* checkAllNodes: the checkNode goroutines not yet done (wg)
    hbStop,      \* HeartbeatManager.stopCh is closed
    booted,      \* main has made its CheckAndElect after heartbeat.Start()
    flips,       \* history: changes of up so far
    cycleClean,  \* history: up has not changed since the running cycle began
    ended,       \* history: a cycle has ended after the last change of up
    fresh,       \* history: a cycle begun after the last change of up has ended
    downLeader   \* history: the leader that last stopped answering, if any

VARIABLES
    nbefore,     \* history: the store as it was before the last call on it
    ncall,       \* history: the last call on the store and its result
    completed    \* history: per id the calls that have returned success

VARIABLES
    hstate,      \* where each start-transaction request stands before Execute
    hseen        \* history: the role the request read at its last role check

VARIABLES
    maxRetries,  \* HTTPClient.maxRetries
    rpc,         \* doWithRetry: where the request stands
    attempt,     \* doWithRetry: the loop variable
    rret,        \* doWithRetry: what was returned, a response or an error
    rlog         \* history: the outcome of every attempt of the request

VARIABLES
    schemaDone,  \* Node.schemaOnce has run
    pcall        \* history: the last Prepare followed through its database work

clusterVars == <<oaddr, orole, oalive, nodes, master, lastOp, lastRet, hist>>
coordVars == <<mu, nextTx, pc, txOf, snap, localPrepared, localCommitOk, prep, fin,
               decision, resp>>
tpcVars == <<hasLocal, withDb, st, coordVars, reqs, replies, issued, nfaults>>

hbVars == <<up, hbpc, probes, hbStop, booted, flips, cycleClean, ended, fresh, downLeader>>
\* what neither the membership table nor the 2PC plane owns
nodeVars == <<nbefore, ncall, completed>>
endpointVars == <<hstate, hseen>>
retryVars == <<maxRetries, rpc, attempt, rret, rlog>>
prepareVars == <<schemaDone, pcall>>
otherVars == <<hbVars, nodeVars, endpointVars, retryVars, prepareVars>>

vars == <<clusterVars, tpcVars, otherVars>>

(* ------------------------- membership table ---------------------------- *)
Min(S) == CHOOSE x \in S : \A y \in S : x <= y

\* the records stored in the table
Members == {nodes[a] : a \in {b \in Addrs : nodes[b] # Nil}}

AliveAddrs(al) == {a \in Addrs : nodes[a] # Nil /\ al[nodes[a]]}

\* Cluster.lowestAliveAddrLocked
lowestAliveAddrLocked(nd, al) ==
    LET aliveAddrs == {a \in Addrs : nd[a] # Nil /\ al[nd[a]]}
    IN  IF aliveAddrs = {} THEN NoAddr ELSE Min(aliveAddrs)

\* electMasterLocked without the reset of every role to follower
electMasterLocked_NoReset(nd, al, rl, m) ==
    LET lowestAlive == lowestAliveAddrLocked(nd, al)
    IN  IF lowestAlive = NoAddr
        THEN [role |-> rl, master |-> Nil, ret |-> FALSE]
        ELSE [role |-> [rl EXCEPT ![nd[lowestAlive]] = RoleMaster],
              master |-> nd[lowestAlive], ret |-> TRUE]

\* Cluster.electMasterLocked: the roles, the pointer and the return value
electMasterLocked(nd, al, rl, m) ==
    LET lowestAlive == lowestAliveAddrLocked(nd, al)
    IN  IF lowestAlive = NoAddr
        THEN [role |-> rl, master |-> Nil, ret |-> FALSE]
        ELSE LET inTable == {nd[a] : a \in {b \in Addrs : nd[b] # Nil}}
                 newMaster == nd[lowestAlive]
                 reset == [o \in Objs |-> IF o \in inTable THEN RoleSlave ELSE rl[o]]
             IN  [role |-> [reset EXCEPT ![newMaster] = RoleMaster],
                  master |-> newMaster, ret |-> TRUE]

\* CheckAndElect that keeps a leader whose record is alive when no member is
checkAndElect_KeepsLeader(nd, al, rl, m) ==
    LET lowestAlive == lowestAliveAddrLocked(nd, al)
        dead == m # Nil /\ ~al[m]
        rl1 == IF dead THEN [rl EXCEPT ![m] = RoleSlave] ELSE rl
        m1 == IF dead THEN Nil ELSE m
        currentMaster == IF m1 # Nil THEN oaddr[m1] ELSE NoAddr
    IN  IF lowestAlive = NoAddr
        THEN [role |-> rl1, master |-> m, ret |-> FALSE]
        ELSE IF m1 = Nil \/ currentMaster # lowestAlive
             THEN electMasterLocked(nd, al, rl1, m1)
             ELSE [role |-> rl1, master |-> m1, ret |-> FALSE]

\* Cluster.CheckAndElect: the roles, the pointer and the return value
checkAndElect(nd, al, rl, m) ==
    LET lowestAlive == lowestAliveAddrLocked(nd, al)
        dead == m # Nil /\ ~al[m]
        rl1 == IF dead THEN [rl EXCEPT ![m] = RoleSlave] ELSE rl
        m1 == IF dead THEN Nil ELSE m
        currentMaster == IF m1 # Nil THEN oaddr[m1] ELSE NoAddr
    IN  IF lowestAlive = NoAddr
        THEN [role |-> IF m1 # Nil THEN [rl1 EXCEPT ![m1] = RoleSlave] ELSE rl1,
              master |-> Nil, ret |-> FALSE]
        ELSE IF m1 = Nil \/ currentMaster # lowestAlive
             THEN electMasterLocked(nd, al, rl1, m1)
             ELSE [role |-> rl1, master |-> m1, ret |-> FALSE]

\* history of the scenario "all dead, election, one revival, election"
\* 0: not in the scenario, 1: an election ran with every member dead,
\* <<2, a>>: then exactly member a was revived, <<3, a>>: then an election ran
HistAfterElect(al) ==
    IF Members # {} /\ AliveAddrs(al) = {} THEN <<1, NoAddr>>
    ELSE IF hist[1] = 2 THEN <<3, hist[2]>>
    ELSE <<0, NoAddr>>

\* the objects still referenced by the table or by the leader pointer; an
\* object nothing references is garbage and its fields are dropped
Reachable(nd, m) == {nd[a] : a \in Addrs} \cup {m}

Collect(f, nd, m, dflt) == [o \in Objs |-> IF o \in Reachable(nd, m) THEN f[o] ELSE dflt]

\* node.NewNode(addr, role): a record no pointer references yet. The record
\* stored under a is released by the overwrite in AddNode unless the leader
\* pointer holds it, so one of the two names of the address is free
NewNode(a) == Min({a, a + NumAddrs} \ {master})

\* node.NewNode(addr, role) + SetAlive(alive) + Cluster.AddNode(n)
AddNode(a, r, al) ==
    /\ LET n == NewNode(a)
           nd == [nodes EXCEPT ![a] = n]
       IN
        /\ oaddr' = Collect([oaddr EXCEPT ![n] = a], nd, master, NoAddr)
        /\ orole' = Collect([orole EXCEPT ![n] = r], nd, master, RoleSlave)
        /\ oalive' = Collect([oalive EXCEPT ![n] = al], nd, master, FALSE)
        /\ nodes' = nd
    /\ lastOp' = "AddNode"
    /\ lastRet' = FALSE
    /\ hist' = <<0, NoAddr>>
    /\ UNCHANGED <<master, tpcVars, otherVars>>

\* Cluster.RemoveNode(addr)
RemoveNode(a) ==
    /\ LET exists == nodes[a] # Nil
           m == IF exists /\ master = nodes[a] THEN Nil ELSE master
           nd == IF exists THEN [nodes EXCEPT ![a] = Nil] ELSE nodes
       IN
        /\ master' = m
        /\ nodes' = nd
        /\ oaddr' = Collect(oaddr, nd, m, NoAddr)
        /\ orole' = Collect(orole, nd, m, RoleSlave)
        /\ oalive' = Collect(oalive, nd, m, FALSE)
    /\ lastOp' = "RemoveNode"
    /\ lastRet' = FALSE
    /\ hist' = <<0, NoAddr>>
    /\ UNCHANGED <<tpcVars, otherVars>>

\* Cluster.SetMaster(n), n a record of the table
SetMaster(n) ==
    /\ n \in Members
    /\ LET rl1 == IF master # Nil THEN [orole EXCEPT ![master] = RoleSlave] ELSE orole
       IN  orole' = Collect([rl1 EXCEPT ![n] = RoleMaster], nodes, n, RoleSlave)
    /\ master' = n
    /\ oaddr' = Collect(oaddr, nodes, n, NoAddr)
    /\ oalive' = Collect(oalive, nodes, n, FALSE)
    /\ lastOp' = "SetMaster"
    /\ lastRet' = FALSE
    /\ hist' = <<0, NoAddr>>
    /\ UNCHANGED <<nodes, tpcVars, otherVars>>

\* Node.SetAlive(alive) on the record stored under an address
\* (HeartbeatManager.checkNode, or the owner of the record)
SetAlive(a, al) ==
    /\ nodes[a] # Nil
    /\ oalive[nodes[a]] # al
    /\ oalive' = [oalive EXCEPT ![nodes[a]] = al]
    /\ lastOp' = "SetAlive"
    /\ lastRet' = FALSE
    /\ hist' = IF hist[1] = 1 /\ al THEN <<2, a>> ELSE <<0, NoAddr>>
    /\ UNCHANGED <<oaddr, orole, nodes, master, tpcVars, otherVars>>

\* Cluster.ElectMaster
ElectMaster ==
    /\ LET e == electMasterLocked(nodes, oalive, orole, master) IN
        /\ orole' = Collect(e.role, nodes, e.master, RoleSlave)
        /\ oaddr' = Collect(oaddr, nodes, e.master, NoAddr)
        /\ oalive' = Collect(oalive, nodes, e.master, FALSE)
        /\ master' = e.master
        /\ lastRet' = e.ret
    /\ lastOp' = "ElectMaster"
    /\ hist' = HistAfterElect(oalive)
    /\ UNCHANGED <<nodes, tpcVars, otherVars>>

\* Cluster.CheckAndElect
CheckAndElect ==
    /\ LET e == checkAndElect(nodes, oalive, orole, master) IN
        /\ orole' = Collect(e.role, nodes, e.master, RoleSlave)
        /\ oaddr' = Collect(oaddr, nodes, e.master, NoAddr)
        /\ oalive' = Collect(oalive, nodes, e.master, FALSE)
        /\ master' = e.master
        /\ lastRet' = e.ret
    /\ lastOp' = "CheckAndElect"
    /\ hist' = HistAfterElect(oalive)
    /\ UNCHANGED <<nodes, tpcVars, otherVars>>

\* GetSlaveNodes that does not look at the liveness of a record
GetSlaveNodes_IgnoresAlive == {a \in Addrs : nodes[a] # Nil /\ orole[nodes[a]] = RoleSlave}

\* Cluster.GetSlaveNodes: the addresses of the alive records of role follower
GetSlaveNodes == {a \in Addrs : nodes[a] # Nil /\ oalive[nodes[a]] /\ orole[nodes[a]] = RoleSlave}

(* --------------------------- participant store ------------------------- *)
\* A store is node.Node's transaction part:
\*   pendingData  the ids of Node.pendingData
\*   pendingTx    per id the *sql.Tx held in Node.pendingTx: "none" (no entry),
\*                "open", or "done" (an entry whose transaction is finished)
\*   TxState      Node.TxState
\*   rows         the committed distributed_tx row of each id
\*   effect       history: what became of the work prepared under each id
\*   log          history: the calls processed for each id, in order
NewStore ==
    [pendingData |-> {},
     pendingTx |-> [i \in TxIds |-> "none"],
     TxState |-> "INIT",
     rows |-> [i \in TxIds |-> "none"],
     effect |-> [i \in TxIds |-> "none"],
     log |-> [i \in TxIds |-> <<>>]]

\* outcomes of the database calls an operation makes: all succeed, or one fails
DbOutcomes == {"ok", "fail"}

\* Node.Prepare without the check of the pending entry
NodePrepare_NoDuplicateCheck(s, id, f) ==
    IF withDb /\ (f # "ok" \/ s.rows[id] # "none")
    THEN [s |-> s, ok |-> FALSE]
    ELSE [s |-> [s EXCEPT !.pendingData = @ \cup {id},
                          !.pendingTx[id] = IF withDb THEN "open" ELSE @,
                          !.TxState = "READY",
                          !.effect[id] = "prepared"],
          ok |-> TRUE]

\* a Prepare whose failing database work leaves its transaction stored
NodePrepare_KeepsFailedTx(s, id, f) ==
    IF id \in s.pendingData
    THEN [s |-> s, ok |-> FALSE]
    ELSE IF withDb /\ (f # "ok" \/ s.rows[id] # "none")
         THEN [s |-> [s EXCEPT !.pendingTx[id] = "open", !.TxState = "READY"],
               ok |-> FALSE]
         ELSE [s |-> [s EXCEPT !.pendingData = @ \cup {id},
                               !.pendingTx[id] = IF withDb THEN "open" ELSE @,
                               !.TxState = "READY",
                               !.effect[id] = "prepared"],
               ok |-> TRUE]

\* Node.Prepare(txID, payload): the store after the call and (ready && err == nil)
NodePrepare(s, id, f) ==
    IF id \in s.pendingData
    THEN [s |-> s, ok |-> FALSE]
    ELSE IF withDb /\ (f # "ok" \/ s.rows[id] # "none")
         \* every failure after BeginTx rolls the fresh transaction back
         THEN [s |-> s, ok |-> FALSE]
         ELSE [s |-> [s EXCEPT !.pendingData = @ \cup {id},
                               !.pendingTx[id] = IF withDb THEN "open" ELSE @,
                               !.TxState = "READY",
                               !.effect[id] = "prepared"],
               ok |-> TRUE]

\* Node.Commit(txID): the store after the call and (err == nil)
NodeCommit(s, id, f) ==
    IF s.pendingTx[id] = "open"
    THEN IF f = "ok"
         THEN [s |-> [s EXCEPT !.pendingTx[id] = "none",
                               !.rows[id] = "COMMITTED",
                               !.effect[id] = "committed",
                               !.pendingData = @ \ {id},
                               !.TxState = "COMMIT"],
               ok |-> TRUE]
         \* the status update or tx.Commit failed: the transaction is over
         \* (rolled back), the error is returned and the entry stays stored
         ELSE [s |-> [s EXCEPT !.pendingTx[id] = "done",
                               !.effect[id] = "rolledback"],
               ok |-> FALSE]
    ELSE IF s.pendingTx[id] = "done"
         \* ErrTxDone from ExecContext and Commit is an already-finished error
         THEN [s |-> [s EXCEPT !.pendingTx[id] = "none",
                               !.pendingData = @ \ {id},
                               !.TxState = "COMMIT"],
               ok |-> TRUE]
    ELSE IF withDb
         THEN IF f = "ok"
              THEN [s |-> [s EXCEPT !.rows[id] = IF @ = "none" THEN @ ELSE "COMMITTED",
                                    !.pendingData = @ \ {id},
                                    !.TxState = "COMMIT"],
                    ok |-> TRUE]
              ELSE [s |-> s, ok |-> FALSE]
         ELSE [s |-> [s EXCEPT !.effect[id] = IF id \in s.pendingData THEN "committed" ELSE @,
                               !.pendingData = @ \ {id},
                               !.TxState = "COMMIT"],
               ok |-> TRUE]

\* Node.Abort(txID): the store after the call and (err == nil)
NodeAbort(s, id, f) ==
    IF s.pendingTx[id] = "open"
    THEN IF f = "ok"
         THEN [s |-> [s EXCEPT !.pendingTx[id] = "none",
                               !.effect[id] = "rolledback",
                               !.pendingData = @ \ {id},
                               !.TxState = "ABORT"],
               ok |-> TRUE]
         ELSE [s |-> [s EXCEPT !.pendingTx[id] = "done",
                               !.effect[id] = "rolledback"],
               ok |-> FALSE]
    ELSE IF s.pendingTx[id] = "done"
         THEN [s |-> [s EXCEPT !.pendingTx[id] = "none",
                               !.pendingData = @ \ {id},
                               !.TxState = "ABORT"],
               ok |-> TRUE]
    ELSE IF withDb
         THEN IF f = "ok"
              THEN [s |-> [s EXCEPT !.rows[id] = IF @ = "none" THEN @ ELSE "ABORTED",
                                    !.pendingData = @ \ {id},
                                    !.TxState = "ABORT"],
                    ok |-> TRUE]
              ELSE [s |-> s, ok |-> FALSE]
         ELSE [s |-> [s EXCEPT !.effect[id] = IF id \in s.pendingData THEN "rolledback" ELSE @,
                               !.pendingData = @ \ {id},
                               !.TxState = "ABORT"],
               ok |-> TRUE]

\* a Commit that empties the whole pending map on success
NodeCall_CommitClearsAll(kind, s, id, f) ==
    IF kind = "prepare" THEN NodePrepare(s, id, f)
    ELSE IF kind = "commit"
         THEN LET r == NodeCommit(s, id, f) IN
              IF r.ok THEN [s |-> [r.s EXCEPT !.pendingData = {}], ok |-> TRUE] ELSE r
    ELSE NodeAbort(s, id, f)

\* the store operation behind each request kind
\* (HTTPServer.handlePrepare / handleCommit / handleAbort call these)
NodeCall(kind, s, id, f) ==
    IF kind = "prepare" THEN NodePrepare(s, id, f)
    ELSE IF kind = "commit" THEN NodeCommit(s, id, f)
    ELSE NodeAbort(s, id, f)

\* the same, with the call noted in the store's history
NodeOp(kind, s, id, f) ==
    LET r == NodeCall(kind, s, id, f)
    IN  [s |-> [r.s EXCEPT !.log[id] = Append(@, kind)], ok |-> r.ok]

\* a database failure is an injected fault and needs a database
FaultOk(f) == f = "ok" \/ (withDb /\ nfaults < MaxFaults)
FaultCount(f) == IF f = "ok" THEN nfaults ELSE nfaults + 1

(* ------------------------------ coordinator ---------------------------- *)
Kinds == {"prepare", "commit", "abort"}
NoCalls == [a \in Addrs |-> "none"]
NoResp == [id |-> NoTx, success |-> FALSE, error |-> "pending", committed |-> 0,
           failedLocal |-> FALSE, failedRemotes |-> {}]

Bump(kind, id, a) == [issued EXCEPT ![kind][id][a] = @ + 1]

\* outcome.preparedRemotes
PreparedRemotes(c) == {r \in snap[c] : prep[c][r] = "ok"}
\* a list of failed nodes that names every remote participant
FailedRemotes_All(c) == snap[c]

\* the remote part of outcome.failedNodes
FailedRemotes(c) == {r \in snap[c] : prep[c][r] = "fail"}
\* the local part of outcome.failedNodes
FailedLocal(c) == hasLocal /\ ~localPrepared[c]

\* len(outcome.failedNodes) > 0 that overlooks a failed local Prepare
PrepareFailed_RemotesOnly(c) == FailedRemotes(c) # {}

\* Execute: len(outcome.failedNodes) > 0
PrepareFailed(c) == FailedLocal(c) \/ FailedRemotes(c) # {}

\* commitSuccess that overlooks a failed local Commit
CommitSuccess_IgnoresLocal(c) == \A r \in PreparedRemotes(c) : fin[c][r] = "ok"

\* commitTransaction: commitSuccess
CommitSuccess(c) == localCommitOk[c] /\ \A r \in PreparedRemotes(c) : fin[c][r] = "ok"

\* totalCommitted that leaves the local participant out
TotalCommitted_RemotesOnly(c) == Cardinality(PreparedRemotes(c))

\* commitTransaction: totalCommitted
TotalCommitted(c) ==
    Cardinality(PreparedRemotes(c)) + IF hasLocal /\ localPrepared[c] THEN 1 ELSE 0

\* an abort phase that reaches only the participants that prepared
FinTargets_PreparedOnly(c) ==
    IF decision[c] \in {"commit", "abort"} THEN PreparedRemotes(c) ELSE {}

\* the addresses the finalisation phase fans out to: commitTransaction hands
\* outcome.preparedRemotes to commitPhase, abortTransaction hands every
\* remote participant to abortPhase
FinTargets(c) ==
    IF decision[c] = "commit" THEN PreparedRemotes(c)
    ELSE IF decision[c] = "abort" THEN snap[c]
    ELSE {}

\* the state of the goroutine that makes the call of this kind to r
CallState(c, kind, r) ==
    IF kind = "prepare" THEN prep[c][r]
    ELSE IF decision[c] = kind THEN fin[c][r]
    ELSE "none"

\* a call result that takes every answer for a success
CallResult_AlwaysOk(ok) == "ok"

\* preparePhase / commitPhase / abortPhase: the Success field of the result
\* (err == nil and status READY, resp.Success)
CallResult(ok) == IF ok THEN "ok" ELSE "fail"

\* an Execute that does not take the mutex
MutexFree_NoLock == TRUE

\* c.mu.Lock() can be passed
MutexFree == mu = NoCaller

\* Execute up to the participant count: lock, fresh id, snapshot
Execute(c) ==
    /\ pc[c] = "idle"
    /\ c = nextTx
    /\ MutexFree
    /\ LET remoteParticipants == GetSlaveNodes
           totalParticipants == Cardinality(remoteParticipants) + IF hasLocal THEN 1 ELSE 0
       IN
        /\ txOf' = [txOf EXCEPT ![c] = nextTx]
        /\ nextTx' = nextTx + 1
        /\ snap' = [snap EXCEPT ![c] = remoteParticipants]
        /\ IF totalParticipants = 0
           THEN /\ pc' = [pc EXCEPT ![c] = "done"]
                /\ resp' = [resp EXCEPT ![c] = [NoResp EXCEPT !.id = nextTx,
                                                            !.error = "No participants available"]]
                /\ mu' = NoCaller
           ELSE /\ pc' = [pc EXCEPT ![c] = IF hasLocal THEN "prepareLocal" ELSE "prepareRemote"]
                /\ resp' = resp
                /\ mu' = c
    /\ UNCHANGED <<clusterVars, otherVars, hasLocal, withDb, st, localPrepared, localCommitOk, prep, fin,
                   decision, reqs, replies, issued, nfaults>>

\* prepareTransaction: c.localNode.Prepare(txID, payload)
PrepareLocal(c, f) ==
    /\ pc[c] = "prepareLocal"
    /\ FaultOk(f)
    /\ LET r == NodeOp("prepare", st[LocalAddr], txOf[c], f) IN
        /\ st' = [st EXCEPT ![LocalAddr] = r.s]
        /\ localPrepared' = [localPrepared EXCEPT ![c] = r.ok]
    /\ issued' = Bump("prepare", txOf[c], LocalAddr)
    /\ nfaults' = FaultCount(f)
    /\ pc' = [pc EXCEPT ![c] = "prepareRemote"]
    /\ UNCHANGED <<clusterVars, otherVars, hasLocal, withDb, mu, nextTx, txOf, snap, localCommitOk, prep,
                   fin, decision, resp, reqs, replies>>

\* the requests of one fan-out and their count in the history
Posts(kind, id, to) == {[kind |-> kind, tx |-> id, to |-> r] : r \in to}
BumpAll(kind, id, to) ==
    [issued EXCEPT ![kind][id] = [a \in Addrs |-> IF a \in to THEN @[a] + 1 ELSE @[a]]]
Sent(to) == [a \in Addrs |-> IF a \in to THEN "sent" ELSE "none"]

\* preparePhase: one goroutine per remote participant posts /prepare
preparePhase(c) ==
    /\ pc[c] = "prepareRemote"
    /\ prep' = [prep EXCEPT ![c] = Sent(snap[c])]
    /\ reqs' = reqs \cup Posts("prepare", txOf[c], snap[c])
    /\ issued' = BumpAll("prepare", txOf[c], snap[c])
    /\ pc' = [pc EXCEPT ![c] = "prepareWait"]
    /\ UNCHANGED <<clusterVars, otherVars, hasLocal, withDb, st, mu, nextTx, txOf, snap, localPrepared,
                   localCommitOk, fin, decision, resp, replies, nfaults>>

\* HTTPServer.handlePrepare / handleCommit / handleAbort at the addressed
\* participant; the response travels back only while the caller still waits
Deliver(q, f) ==
    /\ q \in reqs
    /\ FaultOk(f)
    /\ LET r == NodeOp(q.kind, st[q.to], q.tx, f)
           waiting == \E c \in Callers : txOf[c] = q.tx /\ CallState(c, q.kind, q.to) = "sent"
       IN
        /\ st' = [st EXCEPT ![q.to] = r.s]
        /\ replies' = IF waiting
                      THEN replies \cup {[kind |-> q.kind, tx |-> q.tx, from |-> q.to, ok |-> r.ok]}
                      ELSE replies
    /\ reqs' = reqs \ {q}
    /\ nfaults' = FaultCount(f)
    /\ UNCHANGED <<clusterVars, otherVars, hasLocal, withDb, coordVars, issued>>

\* HTTPClient.Prepare / Commit / Abort returns with the participant's answer:
\* status 200 and READY / success, or a 5xx that doWithRetry turns into an error
Receive(c, p) ==
    /\ p \in replies
    /\ p.tx = txOf[c]
    /\ CallState(c, p.kind, p.from) = "sent"
    /\ LET res == CallResult(p.ok) IN
        IF p.kind = "prepare"
        THEN /\ prep' = [prep EXCEPT ![c][p.from] = res]
             /\ fin' = fin
        ELSE /\ fin' = [fin EXCEPT ![c][p.from] = res]
             /\ prep' = prep
    /\ replies' = replies \ {p}
    /\ UNCHANGED <<clusterVars, otherVars, hasLocal, withDb, st, mu, nextTx, pc, txOf, snap, localPrepared,
                   localCommitOk, decision, resp, reqs, issued, nfaults>>

\* a client built WithRetry: the call that ended with an error is posted
\* again instead of being returned to the phase
Timeout_Resends(c, kind, r) ==
    /\ CallState(c, kind, r) = "sent"
    /\ nfaults < MaxFaults
    /\ reqs' = reqs \cup Posts(kind, txOf[c], {r})
    /\ issued' = Bump(kind, txOf[c], r)
    /\ replies' = {p \in replies : ~(p.kind = kind /\ p.tx = txOf[c] /\ p.from = r)}
    /\ nfaults' = nfaults + 1
    /\ UNCHANGED <<clusterVars, otherVars, hasLocal, withDb, st, mu, nextTx, pc, txOf, snap, localPrepared,
                   localCommitOk, prep, fin, decision, resp>>

\* the http.Client timeout (or a transport error) ends the call with an error;
\* a request that is still on its way may reach the participant later
Timeout(c, kind, r) ==
    /\ CallState(c, kind, r) = "sent"
    /\ nfaults < MaxFaults
    /\ IF kind = "prepare"
       THEN /\ prep' = [prep EXCEPT ![c][r] = "fail"]
            /\ fin' = fin
       ELSE /\ fin' = [fin EXCEPT ![c][r] = "fail"]
            /\ prep' = prep
    /\ replies' = {p \in replies : ~(p.kind = kind /\ p.tx = txOf[c] /\ p.from = r)}
    /\ nfaults' = nfaults + 1
    /\ UNCHANGED <<clusterVars, otherVars, hasLocal, withDb, st, mu, nextTx, pc, txOf, snap, localPrepared,
                   localCommitOk, decision, resp, reqs, issued>>

\* a decision taken without waiting for the prepare goroutines
Decide_NoWait(c) ==
    /\ pc[c] = "prepareWait"
    /\ LET failed == PrepareFailed(c)
           local == hasLocal /\ localPrepared[c]
       IN
        /\ decision' = [decision EXCEPT ![c] = IF failed THEN "abort" ELSE "commit"]
        /\ pc' = [pc EXCEPT ![c] =
                    IF failed THEN (IF local THEN "abortLocal" ELSE "abortRemote")
                    ELSE (IF local THEN "commitLocal" ELSE "commitRemote")]
    /\ UNCHANGED <<clusterVars, otherVars, hasLocal, withDb, st, mu, nextTx, txOf, snap, localPrepared,
                   localCommitOk, prep, fin, resp, reqs, replies, issued, nfaults>>

\* Execute after prepareTransaction returned (wg.Wait passed): the decision
Decide(c) ==
    /\ pc[c] = "prepareWait"
    /\ \A r \in snap[c] : prep[c][r] \in {"ok", "fail"}
    /\ LET failed == PrepareFailed(c)
           local == hasLocal /\ localPrepared[c]
       IN
        /\ decision' = [decision EXCEPT ![c] = IF failed THEN "abort" ELSE "commit"]
        /\ pc' = [pc EXCEPT ![c] =
                    IF failed THEN (IF local THEN "abortLocal" ELSE "abortRemote")
                    ELSE (IF local THEN "commitLocal" ELSE "commitRemote")]
    /\ UNCHANGED <<clusterVars, otherVars, hasLocal, withDb, st, mu, nextTx, txOf, snap, localPrepared,
                   localCommitOk, prep, fin, resp, reqs, replies, issued, nfaults>>

\* commitTransaction: c.localNode.Commit(txID)
CommitLocal(c, f) ==
    /\ pc[c] = "commitLocal"
    /\ FaultOk(f)
    /\ LET r == NodeOp("commit", st[LocalAddr], txOf[c], f) IN
        /\ st' = [st EXCEPT ![LocalAddr] = r.s]
        /\ localCommitOk' = [localCommitOk EXCEPT ![c] = r.ok]
    /\ issued' = Bump("commit", txOf[c], LocalAddr)
    /\ nfaults' = FaultCount(f)
    /\ pc' = [pc EXCEPT ![c] = "commitRemote"]
    /\ UNCHANGED <<clusterVars, otherVars, hasLocal, withDb, mu, nextTx, txOf, snap, localPrepared, prep,
                   fin, decision, resp, reqs, replies>>

\* abortTransaction: c.localNode.Abort(txID), its error is only logged
AbortLocal(c, f) ==
    /\ pc[c] = "abortLocal"
    /\ FaultOk(f)
    /\ LET r == NodeOp("abort", st[LocalAddr], txOf[c], f) IN
        st' = [st EXCEPT ![LocalAddr] = r.s]
    /\ issued' = Bump("abort", txOf[c], LocalAddr)
    /\ nfaults' = FaultCount(f)
    /\ pc' = [pc EXCEPT ![c] = "abortRemote"]
    /\ UNCHANGED <<clusterVars, otherVars, hasLocal, withDb, mu, nextTx, txOf, snap, localPrepared,
                   localCommitOk, prep, fin, decision, resp, reqs, replies>>

\* commitPhase: one goroutine per prepared remote posts /commit
commitPhase(c) ==
    /\ pc[c] = "commitRemote"
    /\ fin' = [fin EXCEPT ![c] = Sent(FinTargets(c))]
    /\ reqs' = reqs \cup Posts("commit", txOf[c], FinTargets(c))
    /\ issued' = BumpAll("commit", txOf[c], FinTargets(c))
    /\ pc' = [pc EXCEPT ![c] = "commitWait"]
    /\ UNCHANGED <<clusterVars, otherVars, hasLocal, withDb, st, mu, nextTx, txOf, snap, localPrepared,
                   localCommitOk, prep, decision, resp, replies, nfaults>>

\* abortPhase: one goroutine per address handed to it posts /abort
abortPhase(c) ==
    /\ pc[c] = "abortRemote"
    /\ fin' = [fin EXCEPT ![c] = Sent(FinTargets(c))]
    /\ reqs' = reqs \cup Posts("abort", txOf[c], FinTargets(c))
    /\ issued' = BumpAll("abort", txOf[c], FinTargets(c))
    /\ pc' = [pc EXCEPT ![c] = "abortWait"]
    /\ UNCHANGED <<clusterVars, otherVars, hasLocal, withDb, st, mu, nextTx, txOf, snap, localPrepared,
                   localCommitOk, prep, decision, resp, replies, nfaults>>

\* Execute after commitTransaction returned: the response, deferred Unlock
FinishCommit(c) ==
    /\ pc[c] = "commitWait"
    /\ \A r \in FinTargets(c) : fin[c][r] \in {"ok", "fail"}
    /\ resp' = [resp EXCEPT ![c] =
                     IF CommitSuccess(c)
                     THEN [NoResp EXCEPT !.id = txOf[c], !.success = TRUE, !.error = "",
                                         !.committed = TotalCommitted(c)]
                     ELSE [NoResp EXCEPT !.id = txOf[c], !.error = "Some commits failed"]]
    /\ pc' = [pc EXCEPT ![c] = "done"]
    /\ mu' = NoCaller
    /\ UNCHANGED <<clusterVars, otherVars, hasLocal, withDb, st, nextTx, txOf, snap, localPrepared,
                   localCommitOk, prep, fin, decision, reqs, replies, issued, nfaults>>

\* an Execute that returns after an abort without releasing the mutex
FinishAbort_KeepsLock(c) ==
    /\ pc[c] = "abortWait"
    /\ \A r \in FinTargets(c) : fin[c][r] \in {"ok", "fail"}
    /\ resp' = [resp EXCEPT ![c] = [NoResp EXCEPT !.id = txOf[c],
                                                 !.error = "Prepare failed for nodes",
                                                 !.failedLocal = FailedLocal(c),
                                                 !.failedRemotes = FailedRemotes(c)]]
    /\ pc' = [pc EXCEPT ![c] = "done"]
    /\ mu' = mu
    /\ UNCHANGED <<clusterVars, otherVars, hasLocal, withDb, st, nextTx, txOf, snap, localPrepared,
                   localCommitOk, prep, fin, decision, reqs, replies, issued, nfaults>>

\* Execute after abortTransaction returned: the response, deferred Unlock
FinishAbort(c) ==
    /\ pc[c] = "abortWait"
    /\ \A r \in FinTargets(c) : fin[c][r] \in {"ok", "fail"}
    /\ resp' = [resp EXCEPT ![c] = [NoResp EXCEPT !.id = txOf[c],
                                                 !.error = "Prepare failed for nodes",
                                                 !.failedLocal = FailedLocal(c),
                                                 !.failedRemotes = FailedRemotes(c)]]
    /\ pc' = [pc EXCEPT ![c] = "done"]
    /\ mu' = NoCaller
    /\ UNCHANGED <<clusterVars, otherVars, hasLocal, withDb, st, nextTx, txOf, snap, localPrepared,
                   localCommitOk, prep, fin, decision, reqs, replies, issued, nfaults>>

\* NewCoordinator, and no request under way
InitCoordinator ==
    /\ mu = NoCaller
    /\ nextTx = 1
    /\ pc = [c \in Callers |-> "idle"]
    /\ txOf = [c \in Callers |-> NoTx]
    /\ snap = [c \in Callers |-> {}]
    /\ localPrepared = [c \in Callers |-> FALSE]
    /\ localCommitOk = [c \in Callers |-> TRUE]
    /\ prep = [c \in Callers |-> NoCalls]
    /\ fin = [c \in Callers |-> NoCalls]
    /\ decision = [c \in Callers |-> "none"]
    /\ resp = [c \in Callers |-> NoResp]
    /\ st = [a \in Addrs |-> NewStore]
    /\ reqs = {}
    /\ replies = {}
    /\ issued = [k \in Kinds |-> [i \in TxIds |-> [a \in Addrs |-> 0]]]
    /\ nfaults = 0

\* a membership table on its own (cluster.NewCluster in a process that has
\* built no coordinator and no store): nothing of the 2PC plane exists
NoCoordinator ==
    /\ hasLocal = FALSE
    /\ withDb = FALSE
    /\ mu = NoCaller
    /\ nextTx = 1
    /\ pc = <<>>
    /\ txOf = <<>>
    /\ snap = <<>>
    /\ localPrepared = <<>>
    /\ localCommitOk = <<>>
    /\ prep = <<>>
    /\ fin = <<>>
    /\ decision = <<>>
    /\ resp = <<>>
    /\ st = <<>>
    /\ reqs = {}
    /\ replies = {}
    /\ issued = <<>>
    /\ nfaults = 0

\* no HeartbeatManager has been started
NoHeartbeat ==
    /\ up = {}
    /\ hbpc = "off"
    /\ probes = {}
    /\ hbStop = FALSE
    /\ booted = TRUE
    /\ flips = 0
    /\ cycleClean = FALSE
    /\ ended = FALSE
    /\ fresh = FALSE
    /\ downLeader = NoAddr

\* no call has been made on a store directly
\* a call: kind, id, injected database outcome, result; earlier: the calls
\* that had returned success for the id before it; again: whether the call
\* right before it was the same call, and how that one ended
NoCall == [kind |-> "none", id |-> NoTx, f |-> "ok", ok |-> FALSE, earlier |-> {},
           again |-> "no"]
NoNodeCalls ==
    /\ nbefore = NewStore
    /\ ncall = NoCall
    /\ completed = [i \in TxIds |-> {}]

\* no start-transaction request is served (Execute is called directly)
NoEndpoint ==
    /\ hstate = <<>>
    /\ hseen = <<>>

\* no Prepare is followed through its database work
NoPrepare ==
    /\ schemaDone = FALSE
    /\ pcall = [id |-> NoTx, payload |-> <<>>, ops |-> <<>>, ok |-> FALSE, same |-> TRUE]

\* no client request is followed through its attempts
NoRetry ==
    /\ maxRetries = 0
    /\ rpc = "off"
    /\ attempt = 0
    /\ rret = "none"
    /\ rlog = <<>>

\* cluster.NewCluster
InitCluster ==
    /\ oaddr = [o \in Objs |-> NoAddr]
    /\ orole = [o \in Objs |-> RoleSlave]
    /\ oalive = [o \in Objs |-> FALSE]
    /\ nodes = [a \in Addrs |-> Nil]
    /\ master = Nil
    /\ lastOp = "NewCluster"
    /\ lastRet = FALSE
    /\ hist = <<0, NoAddr>>
    /\ NoCoordinator
    /\ NoHeartbeat
    /\ NoNodeCalls
    /\ NoEndpoint
    /\ NoRetry
    /\ NoPrepare

NextCluster ==
    \/ \E a \in Addrs, r \in Roles, al \in BOOLEAN : AddNode(a, r, al)
    \/ \E a \in Addrs : RemoveNode(a)
    \/ \E n \in Objs : SetMaster(n)
    \/ \E a \in Addrs, al \in BOOLEAN : SetAlive(a, al)
    \/ ElectMaster
    \/ CheckAndElect

SpecCluster == InitCluster /\ [][NextCluster]_vars

\* a leader process after startup (cmd/master main): its own record is the
\* leader, the other configured nodes are followers, alive or not; the
\* coordinator has a local store or not, the stores a database or not
Init ==
    /\ oaddr = [o \in Objs |-> IF o <= NumAddrs THEN o ELSE NoAddr]
    /\ orole = [o \in Objs |-> IF o = LocalAddr THEN RoleMaster ELSE RoleSlave]
    /\ oalive \in {f \in [Objs -> BOOLEAN] : f[LocalAddr] /\ \A o \in Objs : o > NumAddrs => ~f[o]}
    /\ nodes = [a \in Addrs |-> a]
    /\ master = LocalAddr
    /\ lastOp = "CheckAndElect"
    /\ lastRet = TRUE
    /\ hist = <<0, NoAddr>>
    /\ hasLocal \in BOOLEAN
    /\ withDb \in BOOLEAN
    /\ InitCoordinator
    /\ NoHeartbeat
    /\ NoNodeCalls
    /\ NoEndpoint
    /\ NoRetry
    /\ NoPrepare

Next ==
    \/ \E c \in Callers : Execute(c)
    \/ \E c \in Callers, f \in DbOutcomes : PrepareLocal(c, f)
    \/ \E c \in Callers : preparePhase(c)
    \/ \E q \in reqs, f \in DbOutcomes : Deliver(q, f)
    \/ \E c \in Callers, p \in replies : Receive(c, p)
    \/ \E c \in Callers, k \in Kinds, r \in Addrs : Timeout(c, k, r)
    \/ \E c \in Callers : Decide(c)
    \/ \E c \in Callers, f \in DbOutcomes : CommitLocal(c, f)
    \/ \E c \in Callers, f \in DbOutcomes : AbortLocal(c, f)
    \/ \E c \in Callers : commitPhase(c)
    \/ \E c \in Callers : abortPhase(c)
    \/ \E c \in Callers : FinishCommit(c)
    \/ \E c \in Callers : FinishAbort(c)

Spec == Init /\ [][Next]_vars

(* ------------------------- a leader that crashes ----------------------- *)
\* participants that roll a prepared transaction back on their own when
\* the leader goes away
Crash_ReleasesParticipants(c) ==
    /\ pc[c] \notin {"idle", "done", "crashed"}
    /\ pc' = [pc EXCEPT ![c] = "crashed"]
    /\ st' = [a \in Addrs |->
                IF a \in snap[c] /\ txOf[c] \in st[a].pendingData
                THEN NodeAbort(st[a], txOf[c], "ok").s
                ELSE st[a]]
    /\ UNCHANGED <<clusterVars, otherVars, hasLocal, withDb, mu, nextTx, txOf, snap, localPrepared,
                   localCommitOk, prep, fin, decision, resp, reqs, replies, issued, nfaults>>

\* the leader's process dies inside Execute: whatever Execute had not done
\* yet is never done and the mutex is never released; the participants'
\* servers run on, and requests already posted may still arrive
Crash(c) ==
    /\ pc[c] \notin {"idle", "done", "crashed"}
    /\ pc' = [pc EXCEPT ![c] = "crashed"]
    /\ UNCHANGED <<clusterVars, otherVars, hasLocal, withDb, st, mu, nextTx, txOf, snap, localPrepared,
                   localCommitOk, prep, fin, decision, resp, reqs, replies, issued, nfaults>>

NextCrash ==
    \/ Next
    \/ \E c \in Callers : Crash(c)

SpecCrash == Init /\ [][NextCrash]_vars

(* --------------------- Execute under fair scheduling ------------------- *)
\* a call that is never answered (the participant is down, refuses the
\* connection or drops the request) ends by the http.Client timeout of the
\* coordinator's client, however many calls have ended so before; a request
\* that arrives late is the case of Timeout
Expire(c, kind, r) ==
    /\ CallState(c, kind, r) = "sent"
    /\ IF kind = "prepare"
       THEN /\ prep' = [prep EXCEPT ![c][r] = "fail"]
            /\ fin' = fin
       ELSE /\ fin' = [fin EXCEPT ![c][r] = "fail"]
            /\ prep' = prep
    /\ reqs' = reqs \ Posts(kind, txOf[c], {r})
    /\ replies' = {p \in replies : ~(p.kind = kind /\ p.tx = txOf[c] /\ p.from = r)}
    /\ UNCHANGED <<clusterVars, otherVars, hasLocal, withDb, st, mu, nextTx, pc, txOf, snap, localPrepared,
                   localCommitOk, decision, resp, issued, nfaults>>

NextLive ==
    \/ \E c \in Callers : Execute(c)
    \/ \E c \in Callers, f \in DbOutcomes : PrepareLocal(c, f)
    \/ \E c \in Callers : preparePhase(c)
    \/ \E q \in reqs, f \in DbOutcomes : Deliver(q, f)
    \/ \E c \in Callers, p \in replies : Receive(c, p)
    \/ \E c \in Callers, k \in Kinds, r \in Addrs : Timeout(c, k, r)
    \/ \E c \in Callers, k \in Kinds, r \in Addrs : Expire(c, k, r)
    \/ \E c \in Callers : Decide(c)
    \/ \E c \in Callers, f \in DbOutcomes : CommitLocal(c, f)
    \/ \E c \in Callers, f \in DbOutcomes : AbortLocal(c, f)
    \/ \E c \in Callers : commitPhase(c)
    \/ \E c \in Callers : abortPhase(c)
    \/ \E c \in Callers : FinishCommit(c)
    \/ \E c \in Callers : FinishAbort(c)

\* the goroutine of a caller keeps running: a step of Execute that can be
\* taken is taken, a caller blocked in c.mu.Lock() gets the mutex once it is
\* free, and a call that is not answered ends by the client's timeout. The
\* participants' servers owe nothing: a request may stay unanswered for ever.
ExecuteFairness ==
    \A c \in Callers :
        /\ WF_vars(Execute(c))
        /\ WF_vars(\E f \in DbOutcomes : PrepareLocal(c, f))
        /\ WF_vars(preparePhase(c))
        /\ WF_vars(Decide(c))
        /\ WF_vars(\E f \in DbOutcomes : CommitLocal(c, f))
        /\ WF_vars(\E f \in DbOutcomes : AbortLocal(c, f))
        /\ WF_vars(commitPhase(c))
        /\ WF_vars(abortPhase(c))
        /\ WF_vars(FinishCommit(c))
        /\ WF_vars(FinishAbort(c))
        /\ \A k \in Kinds, r \in Addrs : WF_vars(Expire(c, k, r))

\* the leader process of Init with at most MaxLiveFollowers followers alive
InitLive == Init /\ Cardinality(GetSlaveNodes) <= MaxLiveFollowers

SpecLive == InitLive /\ [][NextLive]_vars /\ ExecuteFairness

(* ------------------------------ heartbeat ------------------------------ *)
\* HeartbeatManager.checkAllNodes up to the fan-out: the initial check of run
\* or a tick of the ticker (select may take the tick although stopCh is closed)
checkAllNodes ==
    \* the initial check of run, or case <-ticker.C of its select
    /\ hbpc \in {"start", "idle"}
    /\ LET ns == {a \in Addrs : nodes[a] # Nil} IN
        /\ probes' = ns
        /\ hbpc' = IF ns = {} THEN "idle" ELSE "probing"
    /\ cycleClean' = TRUE
    /\ UNCHANGED <<clusterVars, tpcVars, nodeVars, endpointVars, retryVars, prepareVars,
                   up, hbStop, booted, flips, ended, fresh, downLeader>>

\* a probe that takes every server for answering
HealthOk_Always(a) == TRUE

\* HTTPClient.HealthCheck(addr) returns without an error: status 200
HealthOk(a) == a \in up

\* HeartbeatManager.checkNode(addr): GetNode, HealthCheck, SetAlive
checkNode(a) ==
    /\ hbpc = "probing"
    /\ a \in probes
    /\ probes' = probes \ {a}
    /\ oalive' = IF nodes[a] # Nil THEN [oalive EXCEPT ![nodes[a]] = HealthOk(a)] ELSE oalive
    /\ lastOp' = "SetAlive"
    /\ lastRet' = FALSE
    /\ UNCHANGED <<oaddr, orole, nodes, master, hist, tpcVars, nodeVars, endpointVars, retryVars, prepareVars,
                   up, hbpc, hbStop, booted, flips,
                   cycleClean, ended, fresh, downLeader>>

\* the roles, the leader pointer and the history after a Cluster.CheckAndElect
ElectionEffect ==
    LET e == checkAndElect(nodes, oalive, orole, master) IN
        /\ orole' = Collect(e.role, nodes, e.master, RoleSlave)
        /\ oaddr' = Collect(oaddr, nodes, e.master, NoAddr)
        /\ oalive' = Collect(oalive, nodes, e.master, FALSE)
        /\ master' = e.master
        /\ lastRet' = e.ret
        /\ lastOp' = "CheckAndElect"

\* a checkAllNodes that calls CheckAndElect without wg.Wait()
hbElect_NoWait ==
    /\ hbpc = "probing"
    /\ ElectionEffect
    /\ hbpc' = "idle"
    /\ ended' = TRUE
    /\ fresh' = cycleClean
    /\ UNCHANGED <<nodes, hist, tpcVars, nodeVars, endpointVars, retryVars, prepareVars,
                   up, probes, hbStop, booted, flips, cycleClean, downLeader>>

\* checkAllNodes after wg.Wait(): h.cluster.CheckAndElect(), back to the select
hbElect ==
    /\ hbpc = "probing"
    /\ probes = {}
    /\ ElectionEffect
    /\ hbpc' = "idle"
    /\ ended' = TRUE
    /\ fresh' = cycleClean
    /\ UNCHANGED <<nodes, hist, tpcVars, nodeVars, endpointVars, retryVars, prepareVars,
                   up, probes, hbStop, booted, flips, cycleClean, downLeader>>

\* cmd/master, cmd/node main: clstr.CheckAndElect() right after heartbeat.Start()
mainCheckAndElect ==
    /\ ~booted
    /\ ElectionEffect
    /\ booted' = TRUE
    /\ UNCHANGED <<nodes, hist, tpcVars, nodeVars, endpointVars, retryVars, prepareVars,
                   up, hbpc, probes, hbStop, flips, cycleClean, ended,
                   fresh, downLeader>>

\* HeartbeatManager.Stop: close(h.stopCh)
hbStopClose ==
    /\ ~hbStop
    /\ hbpc # "stopped"
    /\ hbStop' = TRUE
    /\ UNCHANGED <<clusterVars, tpcVars, nodeVars, endpointVars, retryVars, prepareVars,
                   up, hbpc, probes, booted, flips, cycleClean, ended,
                   fresh, downLeader>>

\* a run that returns on the stop signal in the middle of a cycle
hbExit_MidCycle ==
    /\ hbpc # "stopped"
    /\ hbStop
    /\ hbpc' = "stopped"
    /\ UNCHANGED <<clusterVars, tpcVars, nodeVars, endpointVars, retryVars, prepareVars,
                   up, probes, hbStop, booted, flips, cycleClean, ended,
                   fresh, downLeader>>

\* HeartbeatManager.run: case <-h.stopCh: return
hbExit ==
    /\ hbpc = "idle"
    /\ hbStop
    /\ hbpc' = "stopped"
    /\ UNCHANGED <<clusterVars, tpcVars, nodeVars, endpointVars, retryVars, prepareVars,
                   up, probes, hbStop, booted, flips, cycleClean, ended,
                   fresh, downLeader>>

\* the environment: the server at address a stops or starts answering /health
Flip(a) ==
    /\ flips < MaxFlips
    /\ flips' = flips + 1
    /\ up' = IF a \in up THEN up \ {a} ELSE up \cup {a}
    /\ cycleClean' = FALSE
    /\ ended' = FALSE
    /\ fresh' = FALSE
    /\ downLeader' = IF a \in up /\ master # Nil /\ oaddr[master] = a THEN a
                     ELSE IF a = downLeader THEN NoAddr
                     ELSE downLeader
    /\ UNCHANGED <<clusterVars, tpcVars, nodeVars, endpointVars, retryVars, prepareVars,
                   hbpc, probes, hbStop, booted>>

\* a process after heartbeat.Start(): the configured addresses are in the
\* table, all marked alive; the own record was made with role leader
\* (cmd/master) or follower (cmd/node); no leader has been elected yet
InitHeartbeat ==
    /\ \E l \in Addrs, r \in Roles :
          orole = [o \in Objs |-> IF o = l THEN r ELSE RoleSlave]
    /\ oaddr = [o \in Objs |-> IF o \in Addrs THEN o ELSE NoAddr]
    /\ oalive = [o \in Objs |-> o \in Addrs]
    /\ nodes = [a \in Addrs |-> a]
    /\ master = Nil
    /\ lastOp = "AddNode"
    /\ lastRet = FALSE
    /\ hist = <<0, NoAddr>>
    /\ NoCoordinator
    /\ up \in SUBSET Addrs
    /\ hbpc = "start"
    /\ probes = {}
    /\ hbStop = FALSE
    /\ booted = FALSE
    /\ flips = 0
    /\ cycleClean = FALSE
    /\ ended = FALSE
    /\ fresh = FALSE
    /\ downLeader = NoAddr
    /\ NoNodeCalls
    /\ NoEndpoint
    /\ NoRetry
    /\ NoPrepare

HeartbeatLoop ==
    \/ checkAllNodes
    \/ \E a \in Addrs : checkNode(a)
    \/ hbElect

NextHeartbeat ==
    \/ HeartbeatLoop
    \/ mainCheckAndElect
    \/ hbStopClose
    \/ hbExit
    \/ \E a \in Addrs : Flip(a)

\* the ticker fires again and again, every probe returns (the client has a
\* timeout) and the scheduler runs the loop's goroutines
SpecHeartbeat == InitHeartbeat /\ [][NextHeartbeat]_vars /\ WF_vars(HeartbeatLoop)

\* the same loop; in addition the select of run, which chooses at random
\* among its ready cases, does not pass over the closed stopCh for ever
SpecHeartbeatStop ==
    InitHeartbeat /\ [][NextHeartbeat]_vars /\ WF_vars(HeartbeatLoop) /\ SF_vars(hbExit)

(* ------------------------- one participant store ----------------------- *)
\* one call of Node.Prepare, Node.Commit or Node.Abort on the store of a
\* participant, as HTTPServer.handlePrepare / handleCommit / handleAbort make
\* it for whatever request arrives; Node.mu makes the calls atomic
StoreCall(kind, id, f) ==
    /\ FaultOk(f)
    /\ LET r == NodeCall(kind, st[LocalAddr], id, f) IN
        /\ st' = [st EXCEPT ![LocalAddr] = r.s]
        /\ ncall' = [kind |-> kind, id |-> id, f |-> f, ok |-> r.ok, earlier |-> completed[id],
                     again |-> IF ncall.kind # kind \/ ncall.id # id THEN "no"
                               ELSE IF ncall.ok THEN "ok" ELSE "failed"]
        /\ completed' = [completed EXCEPT ![id] = IF r.ok THEN @ \cup {kind} ELSE @]
    /\ nbefore' = st[LocalAddr]
    /\ nfaults' = FaultCount(f)
    /\ UNCHANGED <<clusterVars, hbVars, endpointVars, retryVars, prepareVars, hasLocal, withDb, coordVars, reqs, replies,
                   issued>>

PrepareCall(id, f) == StoreCall("prepare", id, f)
CommitCall(id, f) == StoreCall("commit", id, f)
AbortCall(id, f) == StoreCall("abort", id, f)

\* node.NewNode / node.NewNodeWithDB: a fresh store, with or without database
InitNode ==
    /\ oaddr = [o \in Objs |-> NoAddr]
    /\ orole = [o \in Objs |-> RoleSlave]
    /\ oalive = [o \in Objs |-> FALSE]
    /\ nodes = [a \in Addrs |-> Nil]
    /\ master = Nil
    /\ lastOp = "NewCluster"
    /\ lastRet = FALSE
    /\ hist = <<0, NoAddr>>
    /\ NoHeartbeat
    /\ NoNodeCalls
    /\ NoEndpoint
    /\ NoRetry
    /\ NoPrepare
    /\ hasLocal = FALSE
    /\ withDb \in BOOLEAN
    /\ mu = NoCaller
    /\ nextTx = 1
    /\ pc = <<>>
    /\ txOf = <<>>
    /\ snap = <<>>
    /\ localPrepared = <<>>
    /\ localCommitOk = <<>>
    /\ prep = <<>>
    /\ fin = <<>>
    /\ decision = <<>>
    /\ resp = <<>>
    /\ st = [a \in {LocalAddr} |-> NewStore]
    /\ reqs = {}
    /\ replies = {}
    /\ issued = <<>>
    /\ nfaults = 0

NextNode ==
    \/ \E id \in TxIds, f \in DbOutcomes : PrepareCall(id, f)
    \/ \E id \in TxIds, f \in DbOutcomes : CommitCall(id, f)
    \/ \E id \in TxIds, f \in DbOutcomes : AbortCall(id, f)

SpecNode == InitNode /\ [][NextNode]_vars

(* ------------------- the start-transaction endpoint -------------------- *)
\* the record of the process's own node: main adds localNode to the table
\* and hands the same record to the server and to the coordinator
LocalRole == orole[nodes[LocalAddr]]

\* HTTPServer.handleTransaction up to the call of s.onTransaction: a node
\* that is not the leader answers 400 "This node is not the master"
handleTransaction(c) ==
    /\ c = nextTx
    /\ hstate[c] \in {"none", "rejected"}
    /\ hseen' = [hseen EXCEPT ![c] = LocalRole]
    /\ hstate' = [hstate EXCEPT ![c] = IF LocalRole # RoleMaster THEN "rejected" ELSE "handler"]
    /\ UNCHANGED <<clusterVars, tpcVars, hbVars, nodeVars, retryVars, prepareVars>>

\* the transaction handler that calls Execute whatever the role is
onTransaction_NoRoleCheck(c) ==
    /\ hstate[c] = "handler"
    /\ hseen' = [hseen EXCEPT ![c] = LocalRole]
    /\ hstate' = [hstate EXCEPT ![c] = "checked"]
    /\ UNCHANGED <<clusterVars, tpcVars, hbVars, nodeVars, retryVars, prepareVars>>

\* the transaction handler main installs, up to the call of Execute: it
\* reads the role again and answers "This node is not the master"
onTransaction(c) ==
    /\ hstate[c] = "handler"
    /\ hseen' = [hseen EXCEPT ![c] = LocalRole]
    /\ hstate' = [hstate EXCEPT ![c] = IF LocalRole # RoleMaster THEN "rejected" ELSE "checked"]
    /\ UNCHANGED <<clusterVars, tpcVars, hbVars, nodeVars, retryVars, prepareVars>>

\* the handler's coordinator.Execute(payload): it takes the mutex when the
\* mutex is free
onTransactionExecute(c) ==
    /\ hstate[c] = "checked"
    /\ Execute(c)

\* a leader process (cmd/master main) serving requests: the coordinator has
\* the local node and the stores have a database
InitEndpoint ==
    /\ oaddr = [o \in Objs |-> IF o <= NumAddrs THEN o ELSE NoAddr]
    /\ orole = [o \in Objs |-> IF o = LocalAddr THEN RoleMaster ELSE RoleSlave]
    /\ oalive \in {f \in [Objs -> BOOLEAN] : f[LocalAddr] /\ \A o \in Objs : o > NumAddrs => ~f[o]}
    /\ nodes = [a \in Addrs |-> a]
    /\ master = LocalAddr
    /\ lastOp = "CheckAndElect"
    /\ lastRet = TRUE
    /\ hist = <<0, NoAddr>>
    /\ hasLocal = TRUE
    /\ withDb = TRUE
    /\ InitCoordinator
    /\ NoHeartbeat
    /\ NoNodeCalls
    /\ hstate = [c \in Callers |-> "none"]
    /\ hseen = [c \in Callers |-> "none"]
    /\ NoRetry
    /\ NoPrepare

\* the requests, the heartbeat's view of the own address and the elections,
\* with databases that work and participants that answer in time
NextEndpoint ==
    \/ \E c \in Callers : handleTransaction(c)
    \/ \E c \in Callers : onTransaction(c)
    \/ \E c \in Callers : onTransactionExecute(c)
    \* the heartbeat finds the own address answering or not, then elects
    \/ \E al \in BOOLEAN : SetAlive(LocalAddr, al)
    \/ CheckAndElect
    \/ \E c \in Callers : PrepareLocal(c, "ok")
    \/ \E c \in Callers : preparePhase(c)
    \/ \E q \in reqs : Deliver(q, "ok")
    \/ \E c \in Callers, p \in replies : Receive(c, p)
    \/ \E c \in Callers : Decide(c)
    \/ \E c \in Callers : CommitLocal(c, "ok")
    \/ \E c \in Callers : AbortLocal(c, "ok")
    \/ \E c \in Callers : commitPhase(c)
    \/ \E c \in Callers : abortPhase(c)
    \/ \E c \in Callers : FinishCommit(c)
    \/ \E c \in Callers : FinishAbort(c)

SpecEndpoint == InitEndpoint /\ [][NextEndpoint]_vars

(* ---------------------- the membership handlers ------------------------ *)
\* the join handler main installs: NewNode(addr, follower), SetAlive(true),
\* AddNode, then the answer with the leader's address
joinHandler(a) == AddNode(a, RoleSlave, TRUE)

\* the add-node handler main installs: NewNode(addr, follower),
\* SetAlive(true), AddNode, persistState
addNodeHandler(a) == AddNode(a, RoleSlave, TRUE)

\* the remove-node handler main installs: RemoveNode(addr), CheckAndElect,
\* persistState
removeNodeHandler(a) ==
    /\ LET exists == nodes[a] # Nil
           m == IF exists /\ master = nodes[a] THEN Nil ELSE master
           nd == IF exists THEN [nodes EXCEPT ![a] = Nil] ELSE nodes
           e == checkAndElect(nd, oalive, orole, m)
       IN
        /\ master' = e.master
        /\ nodes' = nd
        /\ oaddr' = Collect(oaddr, nd, e.master, NoAddr)
        /\ orole' = Collect(e.role, nd, e.master, RoleSlave)
        /\ oalive' = Collect(oalive, nd, e.master, FALSE)
        /\ lastRet' = e.ret
    /\ lastOp' = "removeNodeHandler"
    /\ hist' = <<0, NoAddr>>
    /\ UNCHANGED <<tpcVars, otherVars>>

\* a process serving the admin interface after startup: the table holds its
\* own record, alive, elected leader by main's CheckAndElect
InitAdmin ==
    /\ \E l \in Addrs :
          /\ oaddr = [o \in Objs |-> IF o = l THEN l ELSE NoAddr]
          /\ orole = [o \in Objs |-> IF o = l THEN RoleMaster ELSE RoleSlave]
          /\ oalive = [o \in Objs |-> o = l]
          /\ nodes = [a \in Addrs |-> IF a = l THEN l ELSE Nil]
          /\ master = l
    /\ lastOp = "CheckAndElect"
    /\ lastRet = TRUE
    /\ hist = <<0, NoAddr>>
    /\ NoCoordinator
    /\ NoHeartbeat
    /\ NoNodeCalls
    /\ NoEndpoint
    /\ NoRetry
    /\ NoPrepare

\* the admin requests, the heartbeat's probes and its election
NextAdmin ==
    \/ \E a \in Addrs : joinHandler(a)
    \/ \E a \in Addrs : addNodeHandler(a)
    \/ \E a \in Addrs : removeNodeHandler(a)
    \/ \E a \in Addrs, al \in BOOLEAN : SetAlive(a, al)
    \/ CheckAndElect

SpecAdmin == InitAdmin /\ [][NextAdmin]_vars

(* ------------------------- the client's retries ------------------------ *)
\* what one call of do() can give: a response with a status, or an error
Outcomes == {"200", "400", "500", "503", "err"}

\* a retry condition that takes only a transport error for transient
Transient_ErrorOnly(o) == o = "err"

\* doWithRetry: not (err == nil && resp.StatusCode < 500)
Transient(o) == o \in {"500", "503", "err"}

\* HTTPClient.WithRetry(maxRetries, retryDelay): a negative count is 0
WithRetry(n) ==
    /\ rpc \in {"idle", "returned"}
    /\ maxRetries' = IF n < 0 THEN 0 ELSE n
    /\ rpc' = "idle"
    /\ attempt' = 0
    /\ rret' = "none"
    /\ rlog' = <<>>
    /\ UNCHANGED <<clusterVars, tpcVars, hbVars, nodeVars, endpointVars, prepareVars>>

\* doWithRetry is entered: attempts := c.maxRetries + 1, attempt := 0
doWithRetry ==
    /\ rpc \in {"idle", "returned"}
    /\ rpc' = "loop"
    /\ attempt' = 0
    /\ rret' = "none"
    /\ rlog' = <<>>
    /\ UNCHANGED <<clusterVars, tpcVars, hbVars, nodeVars, endpointVars, prepareVars, maxRetries>>

\* one turn of the loop of doWithRetry: do(), then return, break or go round
doAttempt(o) ==
    /\ rpc = "loop"
    /\ attempt < maxRetries + 1
    /\ rlog' = Append(rlog, o)
    /\ IF ~Transient(o)
       THEN rpc' = "returned" /\ rret' = "resp" /\ attempt' = attempt
       ELSE IF attempt = (maxRetries + 1) - 1
            THEN rpc' = "returned" /\ rret' = "err" /\ attempt' = attempt
            ELSE rpc' = "loop" /\ rret' = rret /\ attempt' = attempt + 1
    /\ UNCHANGED <<clusterVars, tpcVars, hbVars, nodeVars, endpointVars, prepareVars, maxRetries>>

\* transport.NewHTTPClient(timeout): retries are off
InitRetry ==
    /\ oaddr = [o \in Objs |-> NoAddr]
    /\ orole = [o \in Objs |-> RoleSlave]
    /\ oalive = [o \in Objs |-> FALSE]
    /\ nodes = [a \in Addrs |-> Nil]
    /\ master = Nil
    /\ lastOp = "NewCluster"
    /\ lastRet = FALSE
    /\ hist = <<0, NoAddr>>
    /\ NoCoordinator
    /\ NoHeartbeat
    /\ NoNodeCalls
    /\ NoEndpoint
    /\ NoPrepare
    /\ maxRetries = 0
    /\ rpc = "idle"
    /\ attempt = 0
    /\ rret = "none"
    /\ rlog = <<>>

NextRetry ==
    \/ \E n \in -1..MaxRetries : WithRetry(n)
    \/ doWithRetry
    \/ \E o \in Outcomes : doAttempt(o)

SpecRetry == InitRetry /\ [][NextRetry]_vars

(* ---------------------- Prepare and its payload ------------------------ *)
\* SQLAction as it arrives: the operation as written, and whether table,
\* values and where are non-empty
Operations == {"", "insert", "UPDATE", "DELETE"}
SQLAction(op, t, v, w) == [operation |-> op, table |-> t, values |-> v, where |-> w]
\* the payloads tried: complete ones of every operation, and an insert and
\* an update with one part missing
Payloads ==
    {SQLAction(op, TRUE, TRUE, TRUE) : op \in Operations}
        \cup {SQLAction("insert", FALSE, TRUE, FALSE), SQLAction("", TRUE, FALSE, FALSE),
              SQLAction("insert", TRUE, TRUE, FALSE), SQLAction("UPDATE", TRUE, TRUE, FALSE)}

\* parseSQLAction: the operation in upper case, INSERT when none is given
NormalOperation(op) ==
    IF op \in {"", "insert"} THEN "INSERT" ELSE op

\* validateSQLAction(action) == nil, on the parsed action
validateSQLAction(p) ==
    /\ p.table
    /\ p.values
    /\ \/ NormalOperation(p.operation) = "INSERT"
       \/ NormalOperation(p.operation) = "UPDATE" /\ p.where

\* a Prepare that runs the statement before it looks at the where clause
PrepareDbOps_ValidatesLate(s, id, p, f) ==
    IF id \in s.pendingData \/ ~withDb THEN <<>>
    ELSE (IF schemaDone THEN <<>> ELSE <<"ensureSchema">>)
         \o <<"BeginTx">>
         \o (IF f # "ok" THEN <<"applySQLAction", "Rollback">>
             ELSE IF ~validateSQLAction(p) THEN <<"applySQLAction", "Rollback">>
             ELSE IF s.rows[id] # "none" THEN <<"applySQLAction", "insertAudit", "Rollback">>
             ELSE <<"applySQLAction", "insertAudit">>)

\* Node.Prepare: the database calls it makes, in order. A statement that
\* fails is the payload's own (applySQLAction); the audit insert fails on a
\* row that exists already.
PrepareDbOps(s, id, p, f) ==
    IF id \in s.pendingData \/ ~withDb THEN <<>>
    ELSE (IF schemaDone THEN <<>> ELSE <<"ensureSchema">>)
         \o <<"BeginTx">>
         \o (IF ~validateSQLAction(p) THEN <<"Rollback">>
             ELSE IF f # "ok" THEN <<"applySQLAction", "Rollback">>
             ELSE IF s.rows[id] # "none" THEN <<"applySQLAction", "insertAudit", "Rollback">>
             ELSE <<"applySQLAction", "insertAudit">>)

\* Node.Prepare(txID, payload) with the payload in view: without a database
\* the payload is stored unparsed; with one, a payload that does not
\* validate fails the call like a failing statement does
PrepareWith(id, p, f) ==
    /\ FaultOk(f)
    /\ (f # "ok") => validateSQLAction(p)
    /\ LET g == IF withDb /\ ~validateSQLAction(p) THEN "fail" ELSE f
           r == NodePrepare(st[LocalAddr], id, g)
       IN  /\ st' = [st EXCEPT ![LocalAddr] = r.s]
           /\ pcall' = [id |-> id, payload |-> p,
                        ops |-> PrepareDbOps(st[LocalAddr], id, p, f),
                        ok |-> r.ok, same |-> r.s = st[LocalAddr]]
    /\ schemaDone' = (schemaDone \/ (withDb /\ id \notin st[LocalAddr].pendingData))
    /\ nfaults' = FaultCount(f)
    /\ UNCHANGED <<clusterVars, hbVars, nodeVars, endpointVars, retryVars, hasLocal,
                   withDb, coordVars, reqs, replies, issued>>

\* Node.Commit / Node.Abort on the same store
FinishWith(kind, id, f) ==
    /\ kind \in {"commit", "abort"}
    /\ FaultOk(f)
    /\ st' = [st EXCEPT ![LocalAddr] = NodeCall(kind, st[LocalAddr], id, f).s]
    /\ nfaults' = FaultCount(f)
    /\ UNCHANGED <<clusterVars, hbVars, nodeVars, endpointVars, retryVars, prepareVars, hasLocal,
                   withDb, coordVars, reqs, replies, issued>>

\* node.NewNode / node.NewNodeWithDB
InitPrepare == InitNode

NextPrepare ==
    \/ \E id \in TxIds, p \in Payloads, f \in DbOutcomes : PrepareWith(id, p, f)
    \/ \E kind \in {"commit", "abort"}, id \in TxIds, f \in DbOutcomes : FinishWith(kind, id, f)

SpecPrepare == InitPrepare /\ [][NextPrepare]_vars

(* ------------------- properties of the membership table ---------------- *)
LeaderRecords == {o \in Members : orole[o] = RoleMaster}
AnyAlive == \E o \in Members : oalive[o]
AfterElection == lastOp \in {"ElectMaster", "CheckAndElect"}

\* C7 as stated: in every reachable state at most one record of the table
\* has role leader, and exactly one has it whenever some record is alive.
C7_Original ==
    /\ Cardinality(LeaderRecords) <= 1
    /\ AnyAlive => Cardinality(LeaderRecords) = 1

\* C7 amended: in the state right after ElectMaster (RunElection) returned,
\* if at least one record is alive then exactly one record of the table has
\* role leader, and it is the record the leader pointer references.
C7_AfterRunElection ==
    (lastOp = "ElectMaster" /\ AnyAlive) => LeaderRecords = {master}

C7_Witness ==
    /\ lastOp = "ElectMaster"
    /\ Cardinality({o \in Members : oalive[o]}) >= 2
    /\ \E o \in Members : ~oalive[o]
    /\ LeaderRecords = {master}

\* C8 as stated: right after ElectMaster or CheckAndElect returned, if some
\* member is alive the leader is the stored record with the smallest alive
\* address and every other member has role follower.
C8_Claim ==
    (AfterElection /\ AnyAlive) =>
        /\ master # Nil
        /\ master = nodes[lowestAliveAddrLocked(nodes, oalive)]
        /\ orole[master] = RoleMaster
        /\ \A o \in Members \ {master} : orole[o] = RoleSlave

\* C9: an election that runs while every member is dead leaves the leader
\* pointer empty; when exactly one member is then revived, the next election
\* makes that member's record the leader and the only record of role leader.
C9_RevivalElectsThatNode ==
    /\ hist[1] = 1 => master = Nil
    /\ hist[1] = 3 =>
          /\ nodes[hist[2]] # Nil
          /\ master = nodes[hist[2]]
          /\ LeaderRecords = {master}

C9_Witness ==
    /\ hist[1] = 3
    /\ Cardinality(Members) >= 2
    /\ master = nodes[hist[2]]
    /\ hist[2] # Min({a \in Addrs : nodes[a] # Nil})

\* C10 as stated: the leader pointer is empty or references a record that
\* is stored in the table under its address and has role leader, and after
\* RemoveNode of the leader's address the pointer is empty.
C10_Claim ==
    /\ master # Nil => (nodes[oaddr[master]] = master /\ orole[master] = RoleMaster)
    /\ (lastOp = "RemoveNode" /\ master # Nil) => nodes[oaddr[master]] # Nil

(* ------------------------ properties of Execute ------------------------ *)
Returned(c) == pc[c] = "done" /\ txOf[c] # NoTx
\* the participants of c's transaction: the local store when attached and
\* every remote of the snapshot
Participants(c) == (IF hasLocal THEN {LocalAddr} ELSE {}) \cup snap[c]
Effect(a, c) == st[a].effect[txOf[c]]
Issued(k, c, a) == issued[k][txOf[c]][a]
Processed(k, c, a) == \E i \in 1..Len(st[a].log[txOf[c]]) : st[a].log[txOf[c]][i] = k
AllReady(c) == (hasLocal => localPrepared[c]) /\ \A r \in snap[c] : prep[c][r] = "ok"

\* C1 as stated: once Execute has returned, no participant of the
\* transaction has committed it while another participant of the same
\* transaction has rolled it back or still only holds it prepared.
C1_Original ==
    \A c \in Callers : Returned(c) =>
        ~ \E a, b \in Participants(c) :
            Effect(a, c) = "committed" /\ Effect(b, c) \in {"rolledback", "prepared"}

\* C1 amended: when Execute has returned success=true every participant of
\* the transaction has committed it, and when Execute decided abort no
\* participant has committed it; only an Execute that ends with the
\* some-commits-failed error can leave a mixed outcome.
C1_AllOrNothingUnlessCommitFailed ==
    \A c \in Callers :
        /\ (Returned(c) /\ resp[c].success) =>
               \A a \in Participants(c) : Effect(a, c) = "committed"
        /\ decision[c] = "abort" => \A a \in Addrs : Effect(a, c) # "committed"
        /\ (Returned(c) /\ \E a, b \in Participants(c) :
                Effect(a, c) = "committed" /\ Effect(b, c) # "committed")
             => resp[c].error = "Some commits failed"

C1_Witness ==
    \E c \in Callers :
        /\ Returned(c) /\ resp[c].success
        /\ hasLocal /\ withDb /\ Cardinality(snap[c]) >= 2
        /\ \A a \in Participants(c) : Effect(a, c) = "committed"

\* C2: Execute decides commit exactly when every participant answered its
\* Prepare ready without an error (and has indeed prepared the transaction);
\* after a refused, failed or timed-out Prepare the decision is abort and no
\* Commit is issued to any participant for that transaction.
C2_CommitIffAllReady ==
    \A c \in Callers :
        /\ decision[c] # "none" => (decision[c] = "commit" <=> AllReady(c))
        /\ \A r \in snap[c] : prep[c][r] = "ok" => Processed("prepare", c, r) /\ Effect(r, c) # "none"
        /\ decision[c] = "abort" =>
               /\ \A a \in Addrs : Issued("commit", c, a) = 0
               /\ \A q \in reqs : ~(q.kind = "commit" /\ q.tx = txOf[c])
        /\ (Returned(c) /\ Participants(c) # {}) => decision[c] # "none"

C2_Witness ==
    \E c \in Callers :
        /\ Returned(c) /\ decision[c] = "abort"
        /\ hasLocal /\ localPrepared[c]
        /\ \E r, t \in snap[c] : prep[c][r] = "ok" /\ prep[c][t] = "fail" /\ ~Processed("prepare", c, t)

\* C3 as stated: when Execute decided abort, by its return an Abort has been
\* issued exactly once to every participant that was sent a Prepare, and
\* every participant that received the Prepare has received an Abort.
C3_Original ==
    \A c \in Callers : (Returned(c) /\ decision[c] = "abort") =>
        \A a \in Addrs :
            /\ Issued("prepare", c, a) >= 1 => Issued("abort", c, a) = 1
            /\ Processed("prepare", c, a) => Processed("abort", c, a)

\* C3 amended: when Execute decided abort, by its return an Abort has been
\* issued exactly once to every remote participant of the snapshot (those
\* whose Prepare failed or timed out included) and each of these calls has
\* returned or timed out; the local participant is aborted once when its
\* Prepare returned ready and not at all when it failed; no other address
\* is sent an Abort.
C3_AbortToEveryRemoteOnce ==
    \A c \in Callers : (Returned(c) /\ decision[c] = "abort") =>
        /\ \A r \in snap[c] : Issued("abort", c, r) = 1 /\ fin[c][r] \in {"ok", "fail"}
        /\ hasLocal => Issued("abort", c, LocalAddr) = IF localPrepared[c] THEN 1 ELSE 0
        /\ \A a \in Addrs \ Participants(c) : Issued("abort", c, a) = 0

C3_Witness ==
    \E c \in Callers :
        /\ Returned(c) /\ decision[c] = "abort"
        /\ hasLocal /\ localPrepared[c] /\ Issued("abort", c, LocalAddr) = 1
        /\ \E r, t \in snap[c] :
              /\ prep[c][r] = "ok" /\ prep[c][t] = "fail"
              /\ Issued("abort", c, r) = 1 /\ Issued("abort", c, t) = 1

\* C4: when Execute returned success=true, a Commit was issued (once) to
\* every participant of the transaction and each of these calls reported
\* success, no Abort was issued to anyone, and the count in the message is
\* the number of remotes of the snapshot plus one for an attached local store.
C4_SuccessMeansAllCommitsOk ==
    \A c \in Callers : (Returned(c) /\ resp[c].success) =>
        /\ \A a \in Participants(c) : Issued("commit", c, a) = 1
        /\ \A r \in snap[c] : fin[c][r] = "ok"
        /\ hasLocal => localCommitOk[c] /\ Processed("commit", c, LocalAddr)
        /\ \A a \in Addrs : Issued("abort", c, a) = 0
        /\ resp[c].committed = Cardinality(snap[c]) + IF hasLocal THEN 1 ELSE 0

C4_Witness ==
    \E c \in Callers :
        /\ Returned(c) /\ resp[c].success
        /\ hasLocal /\ Cardinality(snap[c]) = 2
        /\ resp[c].committed = 3

\* C5: once Execute decided commit no Abort is ever issued for the
\* transaction; when a Commit call fails, by the return of Execute a Commit
\* has still been issued exactly once to every prepared participant, the
\* participants whose Commit succeeded stay committed, and the response is
\* success=false with the some-commits-failed error.
C5_NoAbortAfterCommitDecision ==
    \A c \in Callers : decision[c] = "commit" =>
        /\ \A a \in Addrs : Issued("abort", c, a) = 0
        /\ \A q \in reqs : ~(q.kind = "abort" /\ q.tx = txOf[c])
        /\ Returned(c) =>
              /\ \A a \in Participants(c) : Issued("commit", c, a) = 1
              /\ \A r \in snap[c] : fin[c][r] = "ok" => Effect(r, c) = "committed"
              /\ (~localCommitOk[c] \/ \E r \in snap[c] : fin[c][r] = "fail") =>
                     (~resp[c].success /\ resp[c].error = "Some commits failed")

C5_Witness ==
    \E c \in Callers :
        /\ Returned(c) /\ decision[c] = "commit"
        /\ hasLocal /\ ~localCommitOk[c]
        /\ Cardinality(snap[c]) = 2
        /\ \A r \in snap[c] : fin[c][r] = "ok" /\ Effect(r, c) = "committed"
        /\ resp[c].error = "Some commits failed"

Active(c) == pc[c] \notin {"idle", "done"}
Started(c) == txOf[c] # NoTx

Answering == {a \in Addrs : nodes[a] # Nil /\ a \in up}

\* the table agrees with the answering servers: the leader is the record of
\* the smallest answering address, and every member that does not answer is
\* marked dead and has role follower
Settled ==
    Answering # {} =>
        /\ master # Nil
        /\ master = nodes[Min(Answering)]
        /\ orole[master] = RoleMaster
        /\ \A a \in Addrs : (nodes[a] # Nil /\ a \notin up) =>
               (~oalive[nodes[a]] /\ orole[nodes[a]] = RoleSlave)

\* C11 as stated: when the leader has stopped answering while another member
\* answers, then at the end of the next heartbeat cycle that completes the
\* leader pointer is the smallest answering member and the former leader is
\* marked dead with role follower.
C11_Original ==
    (ended /\ downLeader # NoAddr /\ Answering # {}) =>
        /\ master # Nil
        /\ master = nodes[Min(Answering)]
        /\ ~oalive[nodes[downLeader]] /\ orole[nodes[downLeader]] = RoleSlave

\* C11 amended: when the leader stops answering while another member answers, then
\* (the heartbeat loop running fairly and not stopped) the leader pointer
\* becomes the smallest answering member and the former leader is marked
\* dead with role follower; this holds from the end of the first heartbeat
\* cycle that began after the change and stays while liveness does not change.
C11_HeartbeatReelects ==
    /\ [](fresh => Settled)
    /\ (<>hbStop) \/ <>[](fresh /\ Settled)

C11_Witness ==
    /\ fresh
    /\ downLeader = 1
    /\ master = nodes[2]
    /\ ~oalive[nodes[1]] /\ orole[nodes[1]] = RoleSlave
    /\ 3 \notin up
(* -------------------- properties of a participant store ---------------- *)
\* the store the calls are made on
Store == st[LocalAddr]
\* what the program keeps of a store: the pending maps, the state, the rows
SameStore(a, b) ==
    /\ a.pendingData = b.pendingData
    /\ a.pendingTx = b.pendingTx
    /\ a.TxState = b.TxState
    /\ a.rows = b.rows
\* the audit row of an id as a reader sees it: the row inserted by Prepare
\* inside the open database transaction, else the committed one
RowSeen(s, id) == IF s.pendingTx[id] = "open" THEN "PREPARED" ELSE s.rows[id]

\* C12: a Prepare for an id that is pending returns not-ready and leaves the
\* store as it was; of two Prepare calls for one id that follow each other
\* (Node.mu puts racing calls in an order) at most one returns ready, and
\* one does: a Prepare the database accepts for an id that is not pending
\* returns ready.
C12_DuplicatePrepareRefused ==
    ncall.kind = "prepare" =>
        /\ ncall.id \in nbefore.pendingData => (~ncall.ok /\ SameStore(Store, nbefore))
        /\ ncall.again = "ok" => ~ncall.ok
        /\ (ncall.f = "ok" /\ ncall.id \notin nbefore.pendingData
              /\ (withDb => nbefore.rows[ncall.id] = "none")) => ncall.ok

C12_Witness ==
    /\ ncall.kind = "prepare" /\ ncall.again = "ok" /\ ~ncall.ok
    /\ withDb /\ Store.pendingTx[ncall.id] = "open"
    /\ ncall.id \in Store.pendingData
\* C13 as stated: once a Commit of an id has returned success, every further
\* Commit of that id (the database working) returns success and leaves the
\* pending maps, the state and the audit rows as they were; likewise for Abort.
C13_Claim ==
    (ncall.kind \in {"commit", "abort"} /\ ncall.kind \in ncall.earlier /\ ncall.f = "ok") =>
        (ncall.ok /\ SameStore(Store, nbefore))

\* C14 as stated: an Abort of an id whose work the store has committed changes
\* neither the state nor the audit row, a Commit of an id whose work it has
\* rolled back changes neither, and after a successful Commit or Abort of an
\* id that has an audit row the state agrees with the status of the row.
C14_Claim ==
    /\ (ncall.kind = "abort" /\ nbefore.effect[ncall.id] = "committed") =>
           (Store.TxState = nbefore.TxState /\ Store.rows = nbefore.rows)
    /\ (ncall.kind = "commit" /\ nbefore.effect[ncall.id] = "rolledback") =>
           (Store.TxState = nbefore.TxState /\ Store.rows = nbefore.rows)
    /\ (ncall.kind \in {"commit", "abort"} /\ ncall.ok /\ Store.rows[ncall.id] # "none") =>
           (Store.TxState = "COMMIT" <=> Store.rows[ncall.id] = "COMMITTED")

\* C16 as stated: a Commit or Abort of an id that is not pending on the store
\* is not applied (the store stays as it was), and a Commit of an id for
\* which no Prepare ever returned ready is not answered as a success.
C16_Claim ==
    /\ (ncall.kind \in {"commit", "abort"} /\ ncall.id \notin nbefore.pendingData) =>
           SameStore(Store, nbefore)
    /\ (ncall.kind = "commit" /\ "prepare" \notin ncall.earlier) => ~ncall.ok

\* C20 as stated: on a store with a database, an id that is held ready has an
\* audit row of status PREPARED, after the Commit of a ready id the row shows
\* COMMITTED, and after the Abort of a ready id the row shows ABORTED.
C20_Claim ==
    withDb =>
        /\ \A id \in TxIds : Store.pendingTx[id] = "open" => RowSeen(Store, id) = "PREPARED"
        /\ (ncall.kind = "commit" /\ ncall.ok /\ nbefore.pendingTx[ncall.id] = "open") =>
               RowSeen(Store, ncall.id) = "COMMITTED"
        /\ (ncall.kind = "abort" /\ ncall.ok /\ nbefore.pendingTx[ncall.id] = "open") =>
               RowSeen(Store, ncall.id) = "ABORTED"
(* --------------------- further properties of Execute ------------------- *)
\* C15 as stated: no participant has processed a Commit or an Abort of a
\* transaction while the Prepare of that transaction sent to it is still on
\* its way (also after the coordinator's Prepare call timed out), and in the
\* order a participant processed the calls of one transaction every Prepare
\* comes before every Commit and Abort.
C15_Claim ==
    /\ \A q \in reqs : q.kind = "prepare" =>
           \A i \in 1..Len(st[q.to].log[q.tx]) : st[q.to].log[q.tx][i] = "prepare"
    /\ \A a \in Addrs, id \in TxIds :
           \A i, j \in 1..Len(st[a].log[id]) :
               (st[a].log[id][i] = "prepare" /\ st[a].log[id][j] # "prepare") => i < j
\* the members that are alive and have role follower
LiveFollowers == {a \in Addrs : nodes[a] # Nil /\ oalive[nodes[a]] /\ orole[nodes[a]] = RoleSlave}

\* C17: an Execute on a coordinator without local store whose membership has
\* no live follower returns success=false with the no-participants error, no
\* Prepare, Commit or Abort has been issued for it, and its response carries
\* the fresh transaction id of the call, different from every other call's.
C17_NoParticipants ==
    \A c \in Callers : (Returned(c) /\ ~hasLocal /\ LiveFollowers = {}) =>
        /\ ~resp[c].success /\ resp[c].error = "No participants available"
        /\ \A k \in Kinds, a \in Addrs : Issued(k, c, a) = 0
        /\ \A q \in reqs : q.tx # txOf[c]
        /\ resp[c].id # NoTx /\ resp[c].id = txOf[c]
        /\ \A d \in Callers \ {c} : resp[d].id # resp[c].id

C17_Witness ==
    /\ ~hasLocal /\ LiveFollowers = {}
    /\ \E a \in Addrs : nodes[a] # Nil /\ ~oalive[nodes[a]] /\ orole[nodes[a]] = RoleSlave
    /\ \A c \in Callers : Returned(c) /\ resp[c].error = "No participants available"
    /\ resp[1].id # resp[2].id
\* C19: when Execute has aborted, the failed nodes named in the error of its
\* response are exactly the participants whose Prepare call did not return
\* ready (it failed, was refused or timed out): every such remote and the
\* local store if its Prepare failed, and no participant that returned ready.
C19_ErrorNamesFailedNodes ==
    \A c \in Callers : (Returned(c) /\ decision[c] = "abort") =>
        /\ resp[c].error = "Prepare failed for nodes"
        /\ resp[c].failedRemotes = {r \in snap[c] : prep[c][r] # "ok"}
        /\ resp[c].failedLocal = (hasLocal /\ ~localPrepared[c])
        /\ resp[c].failedLocal \/ resp[c].failedRemotes # {}
        /\ \A r \in snap[c] : prep[c][r] = "ok" => r \notin resp[c].failedRemotes

C19_Witness ==
    \E c \in Callers :
        /\ Returned(c) /\ decision[c] = "abort"
        /\ hasLocal /\ localPrepared[c] /\ ~resp[c].failedLocal
        /\ \E r, t \in snap[c] : prep[c][r] = "ok" /\ resp[c].failedRemotes = {t}

(* ------------------------------ C18 ------------------------------------ *)
\* the coordinator sends the Prepares of caller c's Execute in this step
SendsPrepares(c) == pc[c] = "prepareRemote" /\ pc'[c] = "prepareWait" /\ snap[c] # {}

\* C18 as stated: a start-transaction request is driven through 2PC only by
\* the leader: a request that finds the node a follower is rejected and
\* never enters Execute, and whenever an Execute sends its Prepares the node
\* holds the leader role at that moment.
C18_Original ==
    /\ [](\A c \in Callers : hseen[c] = RoleSlave => (hstate[c] = "rejected" /\ pc[c] = "idle"))
    /\ [][\A c \in Callers : SendsPrepares(c) => LocalRole = RoleMaster]_vars

\* C18 as the code has it: the role is read when the request is accepted. A
\* request that reads follower at a role check is rejected and never enters
\* Execute, and every Execute under way belongs to a request that read
\* leader at its last role check; the role at the time of sending the
\* Prepares is not constrained.
C18_LeaderCheckedAtAccept ==
    \A c \in Callers :
        /\ hseen[c] = RoleSlave => (hstate[c] = "rejected" /\ pc[c] = "idle" /\ txOf[c] = NoTx)
        /\ pc[c] # "idle" => (hstate[c] = "checked" /\ hseen[c] = RoleMaster)

\* a follower has rejected a request, and another request that passed the
\* role checks while the node was leader has its Prepares in flight
C18_Witness ==
    \E c, d \in Callers :
        /\ hstate[c] = "rejected" /\ hseen[c] = RoleSlave /\ pc[c] = "idle"
        /\ pc[d] = "prepareWait" /\ hseen[d] = RoleMaster
        /\ \E q \in reqs : q.kind = "prepare"

(* ------------------------------ C21 ------------------------------------ *)
\* C21: in one Execute each remote participant is sent at most one Prepare
\* and at most one finalisation request, a Commit or an Abort and never
\* both; a request that failed or timed out is not sent again: once the
\* phase has fanned out the count is exactly one and stays so.
C21_OneRequestPerPhase ==
    \A c \in Callers : txOf[c] # NoTx =>
        /\ \A r \in Addrs \ (snap[c] \cup {LocalAddr}) :
              \A k \in Kinds : Issued(k, c, r) = 0
        /\ \A r \in snap[c] \ {LocalAddr} :
              /\ Issued("prepare", c, r) = (IF prep[c][r] = "none" THEN 0 ELSE 1)
              /\ Issued("commit", c, r) + Issued("abort", c, r)
                    = (IF fin[c][r] = "none" THEN 0 ELSE 1)

\* an Execute has returned after a Prepare to a remote failed or timed out
\* and the Abort to that remote was answered
C21_Witness ==
    \E c \in Callers : \E r \in snap[c] \ {LocalAddr} :
        /\ pc[c] = "done"
        /\ prep[c][r] = "fail" /\ fin[c][r] = "ok"
        /\ Issued("prepare", c, r) = 1 /\ Issued("abort", c, r) = 1
        /\ Issued("commit", c, r) = 0

(* ------------------------------ C22 ------------------------------------ *)
\* the ids reported pending: HasPendingTransaction / GetPendingTransactions
Pending(s) == s.pendingData

\* C22: after a successful Prepare(id) the id is pending and no other id
\* has become or ceased to be pending; a successful Commit(id) or Abort(id)
\* takes exactly that id out of the pending set, and the handle of every
\* other id is left as it was.
C22_OnlyThatIdCleared ==
    ncall.ok =>
        /\ ncall.kind = "prepare" =>
              (ncall.id \notin Pending(nbefore)
                 /\ Pending(Store) = Pending(nbefore) \cup {ncall.id})
        /\ ncall.kind \in {"commit", "abort"} =>
              Pending(Store) = Pending(nbefore) \ {ncall.id}
        /\ \A i \in TxIds \ {ncall.id} : Store.pendingTx[i] = nbefore.pendingTx[i]

\* two ids were pending and a Commit or an Abort of one has succeeded: the
\* other is still pending
C22_Witness ==
    /\ ncall.ok /\ ncall.kind \in {"commit", "abort"}
    /\ ncall.id \in Pending(nbefore)
    /\ Pending(nbefore) \ {ncall.id} # {}
    /\ Pending(Store) = Pending(nbefore) \ {ncall.id}

(* ------------------------------ C23 ------------------------------------ *)
\* the leader pointer is on the smallest alive address of the table, and
\* empty when no member is alive
LeaderIsLowestAlive ==
    IF lowestAliveAddrLocked(nodes, oalive) = NoAddr THEN master = Nil
    ELSE master # Nil /\ oaddr[master] = lowestAliveAddrLocked(nodes, oalive)

\* C23: every membership mutation re-runs the election: when an add, join
\* or remove request has completed, the leader is the smallest live address
\* of the new membership.
C23_Claim ==
    lastOp \in {"AddNode", "removeNodeHandler"} => LeaderIsLowestAlive

(* ------------------------------ C24 ------------------------------------ *)
\* a step in which checkAllNodes leaves its probing and returns to the loop
CycleEnds == hbpc = "probing" /\ hbpc' # "probing"
\* a step that starts a cycle's probes
CycleStarts == hbpc \in {"start", "idle"} /\ hbpc' = "probing"

\* C24: a heartbeat cycle starts one probe per member; it ends with one
\* election, run only after every probe of the cycle has completed, on the
\* liveness values the probes wrote (alive for an answering server, dead
\* otherwise, when no server changed during the cycle); roles and the
\* leader pointer change at no other step of the loop.
C24_ElectionAfterAllProbes ==
    /\ [][CycleStarts => probes' = {a \in Addrs : nodes[a] # Nil}]_vars
    /\ [][CycleEnds =>
            /\ probes = {}
            /\ hbpc' = "idle"
            /\ master' = checkAndElect(nodes, oalive, orole, master).master
            /\ cycleClean => \A a \in Addrs : nodes[a] # Nil => (oalive[nodes[a]] <=> a \in up)
         ]_vars
    /\ [][(master' # master \/ orole' # orole) => (CycleEnds \/ booted' # booted)]_vars

\* a cycle has ended with its election after a probe found a member dead and
\* another probe found a member alive
C24_Witness ==
    /\ hbpc = "idle" /\ ended /\ fresh /\ lastOp = "CheckAndElect" /\ booted
    /\ \E a, b \in Addrs :
          /\ nodes[a] # Nil /\ ~oalive[nodes[a]] /\ a \notin up
          /\ nodes[b] # Nil /\ oalive[nodes[b]] /\ b \in up
          /\ master = nodes[b]

(* ------------------------------ C25 ------------------------------------ *)
\* Stop has returned: close(stopCh) was made and wg.Wait() has passed, which
\* it does when run has returned
StopReturned == hbStop /\ hbpc = "stopped"

\* what holds after Stop has returned: no probe is in flight, and the loop
\* starts no probe, writes no liveness value and runs no election any more
\* (main's own CheckAndElect is not the loop's)
QuietAfterStop ==
    /\ [](hbpc = "stopped" => (hbStop /\ probes = {}))
    /\ [][hbpc = "stopped" =>
            /\ hbpc' = "stopped" /\ probes' = {} /\ oalive' = oalive
            /\ booted' = booted => (master' = master /\ orole' = orole)
         ]_vars
    /\ [][(hbpc # "stopped" /\ hbpc' = "stopped") => (hbpc = "idle" /\ probes = {})]_vars

\* C25 as stated: after Stop has returned the loop is quiet, and Stop
\* returns once the cycle in progress has finished: after the stop signal
\* no further cycle is started.
C25_Original ==
    /\ QuietAfterStop
    /\ [][hbStop => ~CycleStarts]_vars

\* C25 as the code has it: after Stop has returned the loop is quiet; Stop
\* never returns in the middle of a cycle, and it returns eventually, after
\* the cycle in progress and any further cycle the loop started because a
\* tick was ready together with the stop signal.
C25_StopDrains ==
    /\ QuietAfterStop
    /\ (hbStop ~> StopReturned)

\* Stop has returned after at least one cycle had run its election
C25_Witness ==
    StopReturned /\ ended /\ lastOp = "CheckAndElect" /\ probes = {}

(* ------------------------------ C26 ------------------------------------ *)
\* the attempts made for the request so far
Attempts == Len(rlog)
\* a response with a status below 500
Below500(o) == o \in {"200", "400"}

\* C26: a request is attempted at most maxRetries+1 times; the first
\* response with a status below 500 is returned at once; a transport error
\* or a 5xx response leads to another attempt while attempts remain and to
\* an error when none remains; with the default configuration
\* (maxRetries = 0) a request that has returned was attempted exactly once.
C26_AtMostMaxRetriesPlusOne ==
    /\ Attempts <= maxRetries + 1
    /\ \A i \in 1..(Attempts - 1) : ~Below500(rlog[i])
    /\ rpc = "loop" => (rret = "none" /\ \A i \in 1..Attempts : ~Below500(rlog[i]))
    /\ (rpc = "returned" /\ rret = "resp") => (Attempts >= 1 /\ Below500(rlog[Attempts]))
    /\ (rpc = "returned" /\ rret = "err") =>
          (Attempts = maxRetries + 1 /\ ~Below500(rlog[Attempts]))
    /\ (rpc = "returned" /\ maxRetries = 0) => Attempts = 1

\* with one retry configured, a request answered 500 and then 200 has
\* returned the response after exactly 2 attempts
C26_Witness ==
    /\ maxRetries = 1 /\ rpc = "returned" /\ rret = "resp"
    /\ rlog = <<"500", "200">>

(* ------------------------------ C27 ------------------------------------ *)
\* C27: ElectMaster (RunElection) resets every record's role to follower
\* before it chooses: right after it returned no record of the table other
\* than the chosen leader has role leader, and when no member is alive no
\* record of the table has role leader and the leader pointer is empty.
C27_Claim ==
    lastOp = "ElectMaster" =>
        /\ \A o \in Members : orole[o] = RoleMaster => o = master
        /\ ~AnyAlive => (LeaderRecords = {} /\ master = Nil)

(* ------------------------------ C28 ------------------------------------ *)
\* C28: CheckAndElect returns true exactly when the leader pointer after
\* the call differs from the pointer before it (a first leader, another
\* leader, or the pointer cleared because no member is alive), and false
\* when the pointer is unchanged.
C28_Claim ==
    [][lastOp' = "CheckAndElect" => (lastRet' <=> master' # master)]_vars

(* ------------------------------ C29 ------------------------------------ *)
\* the id has been prepared and is no longer pending: a Commit or an Abort
\* of it has succeeded since
Finished(s, id, done) == "prepare" \in done /\ id \notin Pending(s)

\* C29: on a participant an id only moves init to ready and then to
\* committed or aborted: once an id that was prepared has been committed or
\* aborted, a later Prepare with the same id does not succeed, so the id
\* never becomes ready or pending again.
C29_Claim ==
    (ncall.kind = "prepare" /\ Finished(nbefore, ncall.id, ncall.earlier)) =>
        (~ncall.ok /\ ncall.id \notin Pending(Store))

(* ------------------------------ C30 ------------------------------------ *)
\* C30: on a participant with a database the pending map holds a handle
\* for an id exactly while the id is ready (pending), and every stored
\* handle is open; after a Commit or an Abort call for an id has returned,
\* with success or with an error, no finished handle of the id is stored
\* and the id is not reported pending.
C30_Claim ==
    withDb =>
        /\ \A i \in TxIds :
              /\ Store.pendingTx[i] \in {"none", "open"}
              /\ Store.pendingTx[i] = "open" <=> i \in Pending(Store)
        /\ ncall.kind \in {"commit", "abort"} =>
              (Store.pendingTx[ncall.id] = "none" /\ ncall.id \notin Pending(Store))

(* C31: a Prepare that fails, for whatever reason, leaves the participant as
   it was before the call: same pending map, same held database
   transactions (the one it opened is rolled back and not kept), same
   transaction state; and it answers false. *)
C31_FailedPrepareLeavesNoTrace ==
    (ncall.kind = "prepare" /\ ~ncall.ok) =>
        /\ Pending(Store) = Pending(nbefore)
        /\ Store.pendingTx = nbefore.pendingTx
        /\ Store.TxState = nbefore.TxState
        /\ Store.rows = nbefore.rows

\* a Prepare failed in its database work while another id was pending
C31_Witness ==
    /\ withDb
    /\ ncall.kind = "prepare" /\ ~ncall.ok /\ ncall.f = "fail"
    /\ ncall.id \notin Pending(nbefore)
    /\ Pending(nbefore) # {}
    /\ Store.TxState = "READY"

(* C32 as stated: a Prepare on a participant with a database whose update
   payload has no where clause is refused, and during that call no database
   transaction is begun and no statement is executed. *)
UpdateWithoutWhere(p) == NormalOperation(p.operation) = "UPDATE" /\ ~p.where
InOps(op, ops) == \E i \in 1..Len(ops) : ops[i] = op
FreshPrepare == pcall.id # NoTx /\ pcall.ops # <<>>

PreparesReturned(c) ==
    /\ hasLocal => Issued("prepare", c, LocalAddr) > 0
    /\ \A r \in snap[c] : prep[c][r] \in {"ok", "fail"}
C33_PhaseOrder ==
    \A c \in Callers : Started(c) =>
        /\ (hasLocal /\ \E r \in snap[c] : Issued("prepare", c, r) > 0)
               => Processed("prepare", c, LocalAddr)
        /\ (\E a \in Participants(c), k \in {"commit", "abort"} : Issued(k, c, a) > 0)
               => PreparesReturned(c)
        /\ (hasLocal /\ localPrepared[c] /\ \E r \in snap[c] : Issued("commit", c, r) > 0)
               => Processed("commit", c, LocalAddr)

\* a commit with a local participant and two remotes has sent its Commits
C33_Witness ==
    \E c \in Callers :
        /\ hasLocal /\ localPrepared[c]
        /\ Cardinality(snap[c]) = 2
        /\ \A r \in snap[c] : Issued("commit", c, r) > 0

(* C34 as stated: a participant never holds two different transaction ids
   in state ready (prepared and pending) at the same time. *)
ReadyIds(a) == {i \in Pending(st[a]) : withDb => st[a].pendingTx[i] = "open"}
C34_Claim == \A a \in DOMAIN st : Cardinality(ReadyIds(a)) <= 1

(* C35: a participant never leaves state ready on its own. A remote
   participant that prepared a transaction and to which no Commit and no
   Abort request for that id was sent (the leader crashed between its
   decision and the finalisation requests) stays in state ready with its
   database transaction open; and a prepared id leaves state ready at a
   remote participant only in a step in which that participant processes a
   Commit or Abort request for that id. *)
Crashed(c) == pc[c] = "crashed"
NotFinalised(c, r) == Issued("commit", c, r) = 0 /\ Issued("abort", c, r) = 0
StaysReady ==
    \A c \in Callers : \A r \in snap[c] :
        (Crashed(c) /\ Effect(r, c) # "none" /\ NotFinalised(c, r)) =>
            /\ txOf[c] \in ReadyIds(r)
            /\ Effect(r, c) = "prepared"
FinalisedNow(a, i) ==
    /\ Len(st'[a].log[i]) = Len(st[a].log[i]) + 1
    /\ st'[a].log[i][Len(st'[a].log[i])] \in {"commit", "abort"}
LeavesReadyByRequest ==
    \A a \in Addrs \ {LocalAddr} : \A i \in TxIds :
        (i \in ReadyIds(a) /\ i \notin ReadyIds(a)') => FinalisedNow(a, i)
C35_ReadyUntilFinalised == [][StaysReady' /\ LeavesReadyByRequest]_vars

\* the leader crashed after deciding to commit and before any Commit was
\* sent; both remotes hold the transaction prepared
C35_Witness ==
    \E c \in Callers :
        /\ Crashed(c) /\ decision[c] = "commit"
        /\ Cardinality(snap[c]) = 2
        /\ \A r \in snap[c] : NotFinalised(c, r) /\ txOf[c] \in ReadyIds(r)

(* C36 as stated: the remote participant set of an Execute is exactly the
   set of members that are alive followers when the snapshot is taken, the
   coordinator's own node is never in it, and no node is asked to prepare
   the same transaction id twice. *)
SnapshotsAliveFollowers ==
    \A c \in Callers : (txOf[c] = NoTx /\ txOf'[c] # NoTx) => snap'[c] = GetSlaveNodes
OwnNodeNotRemote ==
    \A c \in Callers : Started(c) =>
        /\ LocalAddr \notin snap[c]
        /\ \A a \in Addrs : Issued("prepare", c, a) <= 1
C36_Claim == [][SnapshotsAliveFollowers]_vars /\ []OwnNodeNotRemote

(* C37 as stated: on a participant with a database, a Commit call, first or
   repeated, that returns success for an id that is prepared and still
   pending has committed the database transaction of that id; it never
   reports success for a transaction that was rolled back. *)
C37_Claim ==
    (withDb /\ ncall.kind = "commit" /\ ncall.ok /\ ncall.id \in Pending(nbefore)) =>
        /\ Store.effect[ncall.id] = "committed"
        /\ Store.rows[ncall.id] = "COMMITTED"

(* C38 as stated: after Execute has returned, whatever its outcome, the
   coordinator's local participant has no pending entry left for the
   transaction id of that Execute. *)
C38_Claim ==
    \A c \in Callers : (Returned(c) /\ hasLocal) =>
        /\ txOf[c] \notin Pending(Store)
        /\ Store.pendingTx[txOf[c]] = "none"

(* C39: every Execute that has started returns and has released the
   coordinator mutex, and a caller waiting while another Execute holds the
   mutex eventually runs its own Execute, although participants may fail,
   refuse or never answer; every unanswered call ends by the client's
   timeout. *)
C39_ExecuteTerminates ==
    /\ \A c \in Callers : Active(c) ~> (Returned(c) /\ mu # c)
    /\ \A d \in Callers : (pc[d] = "idle" /\ mu # NoCaller) ~> Started(d)

\* both callers have returned and the mutex is free, the first Execute
\* after a Prepare that was never answered and is still on its way
C39_Witness ==
    /\ \A c \in Callers : Returned(c)
    /\ mu = NoCaller
    /\ \E q \in reqs : q.kind = "prepare" /\ q.tx = txOf[1]
    /\ \E r \in snap[1] : prep[1][r] = "fail"
====
